---- MODULE Spec2Model ----
(***************************************************************************)
(* Poedit's language-code handling (src/src/language.cpp).                 *)
(*                                                                         *)
(* A string is a sequence of one-character strings; S("de_DE") is the      *)
(* sequence <<"d","e","_","D","E">>.  A Language is a record holding the   *)
(* fields m_code, m_tag, m_icuLocale and m_direction of class Language.    *)
(***************************************************************************)
EXTENDS Integers, Sequences, FiniteSets, TLC

VARIABLES
    arg,          \* the caller's input: a string, a legacy name pair, a file name, a text
    op,           \* the entry point called last, "none" before the first call
    lang,         \* the Language that call returned
    buf,          \* the std::wstring TryNormalize works on in place
    again,        \* whether the follow-up call on the result was made
    lang2,        \* FromLanguageTag of lang's language tag, the follow-up
    of_namesList, \* the std::once_flag of GetDisplayNamesData: already called
    data,         \* the static DisplayNamesData of GetDisplayNamesData
    exc,          \* the exception the last call let escape, "none" if it returned
    pf,           \* two PluralFormsExpr instances, pf[1] and pf[2]
    pcall,        \* the member of PluralFormsExpr called last, with its arguments
    ret,          \* the value that call returned
    makes,        \* per instance, the calls of PluralFormsCalculator::make so far
    thr,          \* the threads calling GetDisplayNamesData: position, calls, data seen
    runner,       \* the thread executing the call_once body, 0 when there is none
    builds,       \* how many times the call_once body was started
    hookCalls,    \* the calls of on_error_response so far, with their arguments
    invoked       \* the CheckItem calls of QAChecker::Check, with their CheckString calls

langVars == <<arg, op, lang, buf, again, lang2, of_namesList, data>>
pluralVars == <<pf, pcall, ret, makes>>
onceVars == <<thr, runner, builds>>
restVars == <<onceVars, hookCalls, invoked>>
vars == <<langVars, exc, pluralVars, restVars>>

---------------------------------------------------------------------------
(* Bounds of the model *)

\* longest string over Alphabet that is enumerated exhaustively as an input
MaxLen == 3
\* most directory components of an enumerated file name
MaxDirs == 2
\* most delimiters in an enumerated file name
MaxDelims == 2
\* threads that call GetDisplayNamesData
NThreads == 3
\* most calls of GetDisplayNamesData by one thread
MaxCalls == 2
\* the count of PluralFormsCalculator::make calls stops here
MaxMakes == 2
\* most translations of a catalog item
MaxTranslations == 3
\* most checks registered with a QAChecker
MaxChecks == 2

Threads == 1..NThreads

\* no thread has called GetDisplayNamesData
OnceIdle ==
    /\ thr = [t \in Threads |-> [pc |-> "idle", calls |-> 0, seen |-> <<>>]]
    /\ runner = 0
    /\ builds = 0

\* the state of what a specification does not exercise
RestIdle == OnceIdle /\ hookCalls = <<>> /\ invoked = <<>>

---------------------------------------------------------------------------
(* Characters and strings *)

S(str) == [i \in 1..Len(str) |-> SubSeq(str, i, i)]

LowerChars == S("abcdefghijklmnopqrstuvwxyz")
UpperChars == S("ABCDEFGHIJKLMNOPQRSTUVWXYZ")
DigitChars == S("0123456789")

Range(f) == {f[i] : i \in DOMAIN f}

LowerSet == Range(LowerChars)
UpperSet == Range(UpperChars)
DigitSet == Range(DigitChars)

IndexIn(c, seq) == CHOOSE i \in 1..Len(seq) : seq[i] = c

\* std::islower, std::isupper, std::tolower, std::toupper on ASCII
islower(c) == c \in LowerSet
isupper(c) == c \in UpperSet
isdigit(c) == c \in DigitSet
isalpha(c) == islower(c) \/ isupper(c)
isalnum(c) == isalpha(c) \/ isdigit(c)
tolower(c) == IF isupper(c) THEN LowerChars[IndexIn(c, UpperChars)] ELSE c
toupper(c) == IF islower(c) THEN UpperChars[IndexIn(c, LowerChars)] ELSE c

ToLowerStr(s) == [i \in 1..Len(s) |-> tolower(s[i])]
ToUpperStr(s) == [i \in 1..Len(s) |-> toupper(s[i])]

AlphaSet == LowerSet \cup UpperSet
AlnumSet == AlphaSet \cup DigitSet

\* every character of s is of the class
All(s, class) == \A i \in 1..Len(s) : s[i] \in class

\* substr(pos) and substr(pos, n) with 1-based pos
From(s, pos) == SubSeq(s, pos, Len(s))

\* std::string::find / rfind of a character: 1-based position, 0 for npos
Find(s, c) ==
    IF \E i \in 1..Len(s) : s[i] = c
    THEN CHOOSE i \in 1..Len(s) : s[i] = c /\ \A j \in 1..(i-1) : s[j] # c
    ELSE 0

RFind(s, c) ==
    IF \E i \in 1..Len(s) : s[i] = c
    THEN CHOOSE i \in 1..Len(s) : s[i] = c /\ \A j \in (i+1)..Len(s) : s[j] # c
    ELSE 0

\* find_first_of(chars, from): first position >= from holding one of chars
FindFirstOf(s, chars, from) ==
    IF \E i \in from..Len(s) : s[i] \in chars
    THEN CHOOSE i \in from..Len(s) :
            s[i] \in chars /\ \A j \in from..(i-1) : s[j] \notin chars
    ELSE 0

---------------------------------------------------------------------------
(* The two grammars *)

\* the tail (@[a-z]+)? or (@[a-zA-Z]+)? of both grammars
VariantTail(r, letters) ==
    r = <<>> \/ (Len(r) >= 2 /\ r[1] = "@" /\ All(Tail(r), letters))

\* RE_LANG_CODE: ([a-z]){2,3}(_([A-Z]{2}|[0-9]{3}))?(@[a-z]+)?
MatchLangCode(s) ==
    \E n \in {2, 3} :
        /\ Len(s) >= n
        /\ All(SubSeq(s, 1, n), LowerSet)
        /\ \/ VariantTail(From(s, n+1), LowerSet)
           \/ /\ Len(s) >= n+3
              /\ s[n+1] = "_"
              /\ All(SubSeq(s, n+2, n+3), UpperSet)
              /\ VariantTail(From(s, n+4), LowerSet)
           \/ /\ Len(s) >= n+4
              /\ s[n+1] = "_"
              /\ All(SubSeq(s, n+2, n+4), DigitSet)
              /\ VariantTail(From(s, n+5), LowerSet)

\* RE_LANG_CODE_PERMISSIVE:
\*   ([a-zA-Z]){2,3}([_-]([a-zA-Z]{2}|[0-9]{3}))?(@[a-zA-Z]+)?
MatchLangCodePermissive(s) ==
    \E n \in {2, 3} :
        /\ Len(s) >= n
        /\ All(SubSeq(s, 1, n), AlphaSet)
        /\ \/ VariantTail(From(s, n+1), AlphaSet)
           \/ /\ Len(s) >= n+3
              /\ s[n+1] \in {"_", "-"}
              /\ All(SubSeq(s, n+2, n+3), AlphaSet)
              /\ VariantTail(From(s, n+4), AlphaSet)
           \/ /\ Len(s) >= n+4
              /\ s[n+1] \in {"_", "-"}
              /\ All(SubSeq(s, n+2, n+4), DigitSet)
              /\ VariantTail(From(s, n+5), AlphaSet)

IsValidCode(s) == MatchLangCode(s)

---------------------------------------------------------------------------
(* TryNormalize *)

\* the loop over [begin, end): h is what is left, upper the flag
RECURSIVE NormalizeHead(_, _)
NormalizeHead(h, upper) ==
    IF h = <<>> THEN <<>>
    ELSE LET x == IF Head(h) = "-" THEN "_" ELSE Head(h)
         IN  IF x = "_"
             THEN <<x>> \o NormalizeHead(Tail(h), TRUE)
             ELSE IF isupper(x) /\ ~upper
             THEN <<tolower(x)>> \o NormalizeHead(Tail(h), upper)
             ELSE IF islower(x) /\ upper
             THEN <<toupper(x)>> \o NormalizeHead(Tail(h), upper)
             ELSE <<x>> \o NormalizeHead(Tail(h), upper)

\* the same loop with the '_' test chained as an else-if after the '-' test
RECURSIVE NormalizeHeadElseIf(_, _)
NormalizeHeadElseIf(h, upper) ==
    IF h = <<>> THEN <<>>
    ELSE LET x == Head(h)
         IN  IF x = "-"
             THEN <<"_">> \o NormalizeHeadElseIf(Tail(h), upper)
             ELSE IF x = "_"
             THEN <<x>> \o NormalizeHeadElseIf(Tail(h), TRUE)
             ELSE IF isupper(x) /\ ~upper
             THEN <<tolower(x)>> \o NormalizeHeadElseIf(Tail(h), upper)
             ELSE IF islower(x) /\ upper
             THEN <<toupper(x)>> \o NormalizeHeadElseIf(Tail(h), upper)
             ELSE <<x>> \o NormalizeHeadElseIf(Tail(h), upper)

TryNormalizeElseIf(s) ==
    LET pos == RFind(s, "@")
    IN  IF pos # 0
        THEN NormalizeHeadElseIf(SubSeq(s, 1, pos-1), FALSE) \o ToLowerStr(From(s, pos))
        ELSE NormalizeHeadElseIf(s, FALSE)

TryNormalize(s) ==
    LET pos == RFind(s, "@")
    IN  IF pos # 0
        THEN NormalizeHead(SubSeq(s, 1, pos-1), FALSE) \o ToLowerStr(From(s, pos))
        ELSE NormalizeHead(s, FALSE)

---------------------------------------------------------------------------
(* class Language: a record of its fields *)

LTR == "LTR"
RTL == "RTL"

\* Language(): the invalid Language, all fields empty
InvalidLanguage ==
    [code |-> <<>>, tag |-> <<>>, icuLocale |-> <<>>, direction |-> LTR]

\* IsValid(): the code is not empty
IsValid(l) == l.code # <<>>

\* Lang(): m_code.substr(0, m_code.find_first_of("_@"))
Lang(code) ==
    LET pos == FindFirstOf(code, {"_", "@"}, 1)
    IN  IF pos = 0 THEN code ELSE SubSeq(code, 1, pos-1)

\* Country() that takes everything after the first '_'
CountryToEnd(code) ==
    IF Find(code, "_") = 0 THEN <<>> ELSE From(code, Find(code, "_") + 1)

\* Country(): between the first '_' and the last '@'
Country(code) ==
    LET pos == Find(code, "_")
        endpos == RFind(code, "@")
    IN  IF pos = 0 THEN <<>>
        ELSE IF endpos = 0 THEN From(code, pos+1)
        \* endpos - (pos+1) wraps around when the '@' is before the '_'
        ELSE IF endpos < pos+1 THEN From(code, pos+1)
        ELSE SubSeq(code, pos+1, endpos-1)

\* LangAndCountry(): m_code.substr(0, m_code.rfind('@'))
LangAndCountry(code) ==
    LET pos == RFind(code, "@")
    IN  IF pos = 0 THEN code ELSE SubSeq(code, 1, pos-1)

\* Variant(): after the last '@'
Variant(code) ==
    LET pos == RFind(code, "@")
    IN  IF pos = 0 THEN <<>> ELSE From(code, pos+1)

\* std::string::substr(pos, ...) throws std::out_of_range when pos > size()
substr_throws(size, pos) == pos > size

\* whether Lang(), Country() or Variant() throws on the code: the positions
\* they hand to substr are 0, find('_')+1 and rfind('@')+1
AccessorsThrow(code) ==
    \/ substr_throws(Len(code), 0)
    \/ Find(code, "_") # 0 /\ substr_throws(Len(code), Find(code, "_"))
    \/ RFind(code, "@") # 0 /\ substr_throws(Len(code), RFind(code, "@"))

\* the accessors run on every valid code: in Init through DoGetLanguageTag
\* and DoIsRTL, and in TryParseWithValidation
InitThrows(code) == code # <<>> /\ AccessorsThrow(code)

\* the exception that escapes a call
Exception(throws) == IF throws THEN "std::out_of_range" ELSE "none"

\* the country appended before the script
DoGetLanguageTagCountryFirst(code) ==
    LET l == Lang(code)
        c == Country(code)
        v == Variant(code)
        region == IF c # <<>> THEN S("-") \o c ELSE <<>>
        script == IF v = S("latin") THEN S("-Latn")
                  ELSE IF v = S("cyrillic") THEN S("-Cyrl")
                  ELSE <<>>
        v2 == IF v = S("latin") \/ v = S("cyrillic") THEN <<>> ELSE v
        private == IF v2 # <<>> THEN S("-x-") \o v2 ELSE <<>>
    IN  l \o region \o script \o private

DoGetLanguageTag(code) ==
    LET l == Lang(code)
        c == Country(code)
        v == Variant(code)
        script == IF v = S("latin") THEN S("-Latn")
                  ELSE IF v = S("cyrillic") THEN S("-Cyrl")
                  ELSE <<>>
        \* v.clear() in both script branches
        v2 == IF v = S("latin") \/ v = S("cyrillic") THEN <<>> ELSE v
        region == IF c # <<>> THEN S("-") \o c ELSE <<>>
        private == IF v2 # <<>> THEN S("-x-") \o v2 ELSE <<>>
    IN  l \o script \o region \o private

\* languages whose script the locale database reports as right-to-left
RTLLanguages == {S("ar"), S("he"), S("fa")}

\* DoIsRTL: uscript_getCode on the locale name, then uscript_isRightToLeft
DoIsRTL(icuLocale) ==
    LET pos == FindFirstOf(icuLocale, {"-", "_", "@"}, 1)
        l == IF pos = 0 THEN icuLocale ELSE SubSeq(icuLocale, 1, pos-1)
    IN  l \in RTLLanguages

\* Language::Init(code), and so the constructor Language(code)
LanguageInit(code) ==
    IF code # <<>>
    THEN LET tag == DoGetLanguageTag(code)
         IN  [code |-> code, tag |-> tag, icuLocale |-> tag,
              direction |-> IF DoIsRTL(tag) THEN RTL ELSE LTR]
    ELSE InvalidLanguage

---------------------------------------------------------------------------
(* The locale database (ICU): language tags and locale names *)

\* the subtags of a tag, split at '-'
RECURSIVE Subtags(_)
Subtags(tag) ==
    LET pos == Find(tag, "-")
    IN  IF pos = 0 THEN <<tag>>
        ELSE <<SubSeq(tag, 1, pos-1)>> \o Subtags(From(tag, pos+1))

\* the subtag classes of BCP 47
IsLanguageSubtag(x) == Len(x) \in {2, 3, 5, 6, 7, 8} /\ All(x, AlphaSet)
IsExtlangSubtag(x) == Len(x) = 3 /\ All(x, AlphaSet)
IsScriptSubtag(x) == Len(x) = 4 /\ All(x, AlphaSet)
IsRegionSubtag(x) ==
    (Len(x) = 2 /\ All(x, AlphaSet)) \/ (Len(x) = 3 /\ All(x, DigitSet))
IsVariantSubtag(x) ==
    \/ Len(x) \in 5..8 /\ All(x, AlnumSet)
    \/ Len(x) = 4 /\ isdigit(x[1]) /\ All(x, AlnumSet)
IsPrivateuseValueSubtag(x) == Len(x) \in 1..8 /\ All(x, AlnumSet)

\* how many of flags[i], flags[i+1], ..., at most max, are TRUE in a row
RECURSIVE RunLength(_, _, _)
RunLength(flags, i, max) ==
    IF max = 0 \/ i > Len(flags) \/ ~flags[i] THEN 0
    ELSE 1 + RunLength(flags, i+1, max-1)

\* the subtags t[i..j] joined with sep
RECURSIVE Join(_, _, _, _)
Join(t, i, j, sep) ==
    IF i > j THEN <<>>
    ELSE IF i = j THEN t[i]
    ELSE t[i] \o sep \o Join(t, i+1, j, sep)

TitleCase(x) == <<toupper(x[1])>> \o ToLowerStr(Tail(x))

\* The stages of uloc_forLanguageTag on the subtags t, each from subtag i on.
\* [-x-private]: the keyword x of the locale name
TagPrivateuse(t, i) ==
    LET nPriv == IF i <= Len(t) /\ ToLowerStr(t[i]) = S("x")
                 THEN RunLength([k \in 1..Len(t) |-> IsPrivateuseValueSubtag(t[k])],
                                i+1, Len(t))
                 ELSE 0
    IN  IF nPriv > 0
        THEN S("@x=") \o ToLowerStr(Join(t, i+1, i+nPriv, S("-")))
        ELSE <<>>

\* (-variant)*: upper case, after an empty country when there is none
TagVariants(t, i, hasRegion) ==
    LET nVar == RunLength([k \in 1..Len(t) |-> IsVariantSubtag(t[k])], i, Len(t))
    IN  (IF nVar > 0
         THEN (IF hasRegion THEN <<>> ELSE S("_"))
              \o S("_") \o ToUpperStr(Join(t, i, i+nVar-1, S("_")))
         ELSE <<>>)
        \o TagPrivateuse(t, i+nVar)

\* [-REGION]: upper case
TagRegion(t, i) ==
    LET hasRegion == i <= Len(t) /\ IsRegionSubtag(t[i])
    IN  (IF hasRegion THEN S("_") \o ToUpperStr(t[i]) ELSE <<>>)
        \o TagVariants(t, IF hasRegion THEN i+1 ELSE i, hasRegion)

\* [-Script]: title case
TagScript(t, i) ==
    LET hasScript == i <= Len(t) /\ IsScriptSubtag(t[i])
    IN  (IF hasScript THEN S("_") \o TitleCase(t[i]) ELSE <<>>)
        \o TagRegion(t, IF hasScript THEN i+1 ELSE i)

\* language[-extlang]: the first extlang subtag replaces the language
TagLanguage(t) ==
    LET nExt == RunLength([k \in 1..Len(t) |-> IsExtlangSubtag(t[k])], 2, 3)
    IN  ToLowerStr(IF nExt > 0 THEN t[2] ELSE t[1]) \o TagScript(t, 2 + nExt)

\* the locale name of the subtags t
LocaleOfSubtags(t) ==
    IF IsLanguageSubtag(t[1]) THEN TagLanguage(t) ELSE TagPrivateuse(t, 1)

\* uloc_forLanguageTag(tag, locale, 512, NULL, &status): the well-formed
\* prefix language[-extlang][-Script][-REGION](-variant)*[-x-private]
\* becomes the locale name; what follows that prefix is ignored, and no
\* tag fails.  Extension subtags and grandfathered tags are left out.
uloc_forLanguageTag(tag) == LocaleOfSubtags(Subtags(tag))

\* uloc_getLanguage(locale, buf, 512, &status)
uloc_getLanguage(locale) ==
    LET pos == FindFirstOf(locale, {"_", "-", "@", "."}, 1)
    IN  ToLowerStr(IF pos = 0 THEN locale ELSE SubSeq(locale, 1, pos-1))

\* the piece of a locale name from position i up to the next delimiter
Piece(locale, i) ==
    LET pos == FindFirstOf(locale, {"_", "-", "@", "."}, i)
    IN  IF pos = 0 THEN From(locale, i) ELSE SubSeq(locale, i, pos-1)

\* the piece after the separator at position i, empty without a separator
PieceAfter(locale, i) ==
    IF i <= Len(locale) /\ locale[i] \in {"_", "-"}
    THEN Piece(locale, i+1)
    ELSE <<>>

\* the country when the piece after the language is p1: behind p1 when p1
\* is a script of four letters, else p1 itself
CountryAfter(locale, afterLang, p1) ==
    LET p2 == IF Len(p1) = 4 /\ All(p1, AlphaSet)
              THEN PieceAfter(locale, afterLang + 5)
              ELSE p1
    IN  IF Len(p2) \in {2, 3} THEN ToUpperStr(p2) ELSE <<>>

\* the country of a locale name whose language ends before afterLang
CountryFrom(locale, afterLang) ==
    CountryAfter(locale, afterLang, PieceAfter(locale, afterLang))

\* uloc_getCountry(locale, buf, 512, &status): after the language and a
\* four-letter script, a piece of two or three characters
uloc_getCountry(locale) ==
    CountryFrom(locale, Len(uloc_getLanguage(locale)) + 1)

\* regex_search(locale, m, "@x=([^@]+)$"): m.str(1), or empty without a match
PrivateSubtag(locale) ==
    LET starts == {i \in 1..(Len(locale) - 3) :
                      /\ SubSeq(locale, i, i+2) = S("@x=")
                      /\ \A j \in (i+3)..Len(locale) : locale[j] # "@"}
    IN  IF starts = {} THEN <<>>
        ELSE LET i == CHOOSE i \in starts : \A k \in starts : i <= k
             IN  From(locale, i+3)

\* m_code as FromLanguageTag puts it together: the language, "_" and the
\* country, "@" and the private-use subtag
CodeOfParts(l, c, v) ==
    l \o (IF c # <<>> THEN S("_") \o c ELSE <<>>)
      \o (IF v # <<>> THEN S("@") \o v ELSE <<>>)

\* FromLanguageTag with m_tag recomputed from the code instead of kept
LanguageOfLocaleRecomputeTag(tag, locale) ==
    [code |-> CodeOfParts(uloc_getLanguage(locale), uloc_getCountry(locale),
                          PrivateSubtag(locale)),
     tag |-> DoGetLanguageTag(CodeOfParts(uloc_getLanguage(locale),
                                          uloc_getCountry(locale),
                                          PrivateSubtag(locale))),
     icuLocale |-> locale,
     direction |-> LTR]

\* the Language FromLanguageTag fills in once ICU gave the locale name
LanguageOfLocale(tag, locale) ==
    [code |-> CodeOfParts(uloc_getLanguage(locale), uloc_getCountry(locale),
                          PrivateSubtag(locale)),
     tag |-> tag,
     icuLocale |-> locale,
     direction |-> LTR]

\* Language::FromLanguageTag(tag); U_FAILURE(status) does not happen for a
\* tag shorter than the buffer
FromLanguageTag(tag) == LanguageOfLocale(tag, uloc_forLanguageTag(tag))

---------------------------------------------------------------------------
(* The locale database (ICU): its tables *)

\* icu::Locale::getISOLanguages(), a sample
ISOLanguages ==
    {S("de"), S("ee"), S("sr"), S("uz"), S("zh"), S("es"), S("cs"), S("fr"),
     S("en"), S("ca")}

\* icu::Locale::getISOCountries(), a sample
ISOCountries ==
    {S("DE"), S("CZ"), S("RS"), S("CN"), S("TW"), S("ES"), S("FR"), S("US")}

IsISOLanguage(s) == s \in ISOLanguages

IsISOCountry(s) == s \in ISOCountries

Locale(l, sc, c, v, name, nameEng) ==
    [language |-> S(l), script |-> S(sc), country |-> S(c), variant |-> S(v),
     name |-> S(name), nameEng |-> S(nameEng)]

\* icu::Locale::getAvailableLocales(count), a sample, with each locale's
\* display name in the user's language (German) and in English
AvailableLocales ==
    << Locale("de", "", "", "", "Deutsch", "German"),
       Locale("ee", "", "", "", "Ewe", "Ewe"),
       Locale("sr", "Latn", "", "", "Serbisch (Lateinisch)", "Serbian (Latin)"),
       Locale("sr", "Cyrl", "", "", "Serbisch (Kyrillisch)", "Serbian (Cyrillic)"),
       Locale("uz", "Cyrl", "", "", "Usbekisch (Kyrillisch)", "Uzbek (Cyrillic)"),
       Locale("zh", "Hans", "", "", "Chinesisch (Vereinfacht)", "Chinese (Simplified)"),
       Locale("es", "", "419", "", "Spanisch (Lateinamerika)", "Spanish (Latin America)"),
       Locale("ca", "", "ES", "VALENCIA", "Katalanisch (Spanien, Valencianisch)",
              "Catalan (Spain, Valencian)"),
       Locale("cs", "", "CZ", "", "Tschechisch (Tschechien)", "Czech (Czechia)") >>

\* icu::UnicodeString::foldCase on ASCII
foldCase(s) == ToLowerStr(s)

\* the order of the collator, case-insensitive: by folded characters
CollationOrder == S(" (),0123456789abcdefghijklmnopqrstuvwxyz")

CollationKey(c) ==
    IF tolower(c) \in Range(CollationOrder)
    THEN IndexIn(tolower(c), CollationOrder)
    ELSE Len(CollationOrder) + 1

\* coll->compare(a, b, e) == UCOL_LESS
RECURSIVE CollatesLess(_, _)
CollatesLess(a, b) ==
    IF b = <<>> THEN FALSE
    ELSE IF a = <<>> THEN TRUE
    ELSE IF CollationKey(Head(a)) # CollationKey(Head(b))
    THEN CollationKey(Head(a)) < CollationKey(Head(b))
    ELSE CollatesLess(Tail(a), Tail(b))

\* std::sort(names.begin(), names.end(), ...)
RECURSIVE InsertSorted(_, _)
InsertSorted(x, sorted) ==
    IF sorted = <<>> THEN <<x>>
    ELSE IF CollatesLess(x, Head(sorted)) THEN <<x>> \o sorted
    ELSE <<Head(sorted)>> \o InsertSorted(x, Tail(sorted))

RECURSIVE SortNames(_)
SortNames(names) ==
    IF names = <<>> THEN <<>>
    ELSE InsertSorted(Head(names), SortNames(Tail(names)))

\* map[key] = value on an unordered_map held as a function
MapPut(map, key, value) ==
    [k \in DOMAIN map \cup {key} |-> IF k = key THEN value ELSE map[k]]

EmptyMap == [k \in {} |-> <<>>]

\* struct DisplayNamesData before the one-time initialisation
EmptyDisplayNamesData ==
    [names |-> EmptyMap, namesEng |-> EmptyMap, sortedNames |-> <<>>]

\* the gettext code the loop gives a locale
LocaleCode(loc) ==
    LET country == IF loc.language = S("zh") /\ loc.country = <<>>
                   THEN IF loc.script = S("Hans") THEN S("CN")
                        ELSE IF loc.script = S("Hant") THEN S("TW")
                        ELSE loc.country
                   ELSE loc.country
        suffix == IF loc.script = S("Latn") THEN S("@latin")
                  ELSE IF loc.script = S("Cyrl") /\ loc.language # S("sr")
                  THEN S("@cyrillic")
                  ELSE <<>>
    IN  loc.language \o (IF country # <<>> THEN S("_") \o country ELSE <<>>)
                     \o suffix

\* the loop with the display name of a locale with variant kept in the
\* vector names
RECURSIVE NamesLoopKeepVariants(_, _)
NamesLoopKeepVariants(i, acc) ==
    IF i > Len(AvailableLocales) THEN acc
    ELSE LET loc == AvailableLocales[i]
         IN  IF loc.variant # <<>>
             THEN NamesLoopKeepVariants(i+1,
                    [acc EXCEPT !.sortedNames = Append(@, loc.name)])
             ELSE NamesLoopKeepVariants(i+1,
                    [names |-> MapPut(acc.names, foldCase(loc.name), LocaleCode(loc)),
                     namesEng |-> MapPut(acc.namesEng, foldCase(loc.nameEng),
                                         LocaleCode(loc)),
                     sortedNames |-> Append(acc.sortedNames, loc.name)])

\* the loop over the available locales from locale i on: acc holds data
\* .names and .namesEng and, in .sortedNames, the vector names (unsorted)
RECURSIVE NamesLoop(_, _)
NamesLoop(i, acc) ==
    IF i > Len(AvailableLocales) THEN acc
    ELSE LET loc == AvailableLocales[i]
         IN  IF loc.variant # <<>> THEN NamesLoop(i+1, acc)
             ELSE NamesLoop(i+1,
                    [names |-> MapPut(acc.names, foldCase(loc.name), LocaleCode(loc)),
                     namesEng |-> MapPut(acc.namesEng, foldCase(loc.nameEng),
                                         LocaleCode(loc)),
                     sortedNames |-> Append(acc.sortedNames, loc.name)])

\* the body given to std::call_once in GetDisplayNamesData
BuildDisplayNamesData ==
    LET acc == NamesLoop(1, EmptyDisplayNamesData)
    IN  [acc EXCEPT !.sortedNames = SortNames(acc.sortedNames)]

\* GetDisplayNamesData(): the data after the call, built on the first one
GetDisplayNamesData(called, current) ==
    IF called THEN current ELSE BuildDisplayNamesData

---------------------------------------------------------------------------
(* The parse entry points *)

\* TryParse with the permissive step moved behind the display names
TryParseStepsNamesFirst(s, s2, folded, names, fromTag) ==
    IF IsValidCode(s) THEN LanguageInit(s)
    ELSE IF s = S("zh-Hans") THEN LanguageInit(S("zh_CN"))
    ELSE IF s = S("zh-Hant") THEN LanguageInit(S("zh_TW"))
    ELSE IF folded \in DOMAIN names.names THEN LanguageInit(names.names[folded])
    ELSE IF folded \in DOMAIN names.namesEng
    THEN LanguageInit(names.namesEng[folded])
    ELSE IF MatchLangCodePermissive(s) /\ IsValidCode(s2) THEN LanguageInit(s2)
    ELSE IF IsValid(fromTag) THEN fromTag
    ELSE InvalidLanguage

\* TryParse returning the permissive match as typed, without TryNormalize
TryParseStepsNoNormalize(s, s2, folded, names, fromTag) ==
    IF IsValidCode(s) THEN LanguageInit(s)
    ELSE IF s = S("zh-Hans") THEN LanguageInit(S("zh_CN"))
    ELSE IF s = S("zh-Hant") THEN LanguageInit(S("zh_TW"))
    ELSE IF MatchLangCodePermissive(s) THEN LanguageInit(s)
    ELSE IF folded \in DOMAIN names.names THEN LanguageInit(names.names[folded])
    ELSE IF folded \in DOMAIN names.namesEng
    THEN LanguageInit(names.namesEng[folded])
    ELSE IF IsValid(fromTag) THEN fromTag
    ELSE InvalidLanguage

\* TryParse handing back a Language of the input when every step failed
TryParseStepsKeepInput(s, s2, folded, names, fromTag) ==
    IF IsValidCode(s) THEN LanguageInit(s)
    ELSE IF s = S("zh-Hans") THEN LanguageInit(S("zh_CN"))
    ELSE IF s = S("zh-Hant") THEN LanguageInit(S("zh_TW"))
    ELSE IF MatchLangCodePermissive(s) /\ IsValidCode(s2) THEN LanguageInit(s2)
    ELSE IF folded \in DOMAIN names.names THEN LanguageInit(names.names[folded])
    ELSE IF folded \in DOMAIN names.namesEng
    THEN LanguageInit(names.namesEng[folded])
    ELSE IF IsValid(fromTag) THEN fromTag
    ELSE LanguageInit(s)

\* the steps of TryParse; s2 is s after TryNormalize, folded is s after
\* foldCase, names is what GetDisplayNamesData() returns and fromTag is
\* FromLanguageTag(s)
TryParseSteps(s, s2, folded, names, fromTag) ==
    IF IsValidCode(s) THEN LanguageInit(s)
    ELSE IF s = S("zh-Hans") THEN LanguageInit(S("zh_CN"))
    ELSE IF s = S("zh-Hant") THEN LanguageInit(S("zh_TW"))
    ELSE IF MatchLangCodePermissive(s) /\ IsValidCode(s2) THEN LanguageInit(s2)
    ELSE IF folded \in DOMAIN names.names THEN LanguageInit(names.names[folded])
    ELSE IF folded \in DOMAIN names.namesEng
    THEN LanguageInit(names.namesEng[folded])
    ELSE IF IsValid(fromTag) THEN fromTag
    ELSE InvalidLanguage

\* Language::TryParse(s).  str::to_icu, str::to_wstring and str::to_utf8
\* keep ASCII text as it is.
TryParse(s, names) ==
    TryParseSteps(s, TryNormalize(s), foldCase(s), names, FromLanguageTag(s))

\* the validation without the check of the country
ValidatedNoCountry(l) ==
    IF ~IsValid(l) THEN InvalidLanguage
    ELSE IF ~IsISOLanguage(Lang(l.code)) THEN InvalidLanguage
    ELSE l

\* what TryParseWithValidation makes of the Language l TryParse returned
Validated(l) ==
    IF ~IsValid(l) THEN InvalidLanguage
    ELSE IF ~IsISOLanguage(Lang(l.code)) THEN InvalidLanguage
    ELSE IF Country(l.code) # <<>> /\ ~IsISOCountry(Country(l.code))
    THEN InvalidLanguage
    ELSE l

\* Language::TryParseWithValidation(s)
TryParseWithValidation(s, names) == Validated(TryParse(s, names))

\* isoLanguages of language_impl_legacy.h, a sample
isoLanguages ==
    MapPut(MapPut(MapPut(EmptyMap, S("German"), S("de")),
                  S("Czech"), S("cs")), S("Serbian"), S("sr"))

\* isoCountries of language_impl_legacy.h, a sample
isoCountries ==
    MapPut(MapPut(EmptyMap, S("GERMANY"), S("DE")), S("CZECH REPUBLIC"), S("CZ"))

\* FromLegacyNames that gives up on a country it does not know
FromLegacyNamesStrictCountry(l, country) ==
    IF l = <<>> THEN InvalidLanguage
    ELSE IF l \notin DOMAIN isoLanguages THEN InvalidLanguage
    ELSE IF country # <<>> /\ country \notin DOMAIN isoCountries
         THEN InvalidLanguage
    ELSE LanguageInit(
            isoLanguages[l] \o
            (IF country # <<>> THEN S("_") \o isoCountries[country] ELSE <<>>))

\* Language::FromLegacyNames(lang, country)
FromLegacyNames(l, country) ==
    IF l = <<>> THEN InvalidLanguage
    ELSE IF l \notin DOMAIN isoLanguages THEN InvalidLanguage
    ELSE LanguageInit(
            isoLanguages[l] \o
            (IF country # <<>> /\ country \in DOMAIN isoCountries
             THEN S("_") \o isoCountries[country] ELSE <<>>))

\* the delimiters TryGuessFromFilename splits the name at
NameDelimiters == {".", "-", "_"}

\* the parts of name the while loop tries, from delimiter position pos on
RECURSIVE SuffixParts(_, _)
SuffixParts(name, pos) ==
    IF pos = 0 THEN <<>>
    ELSE <<From(name, pos+1)>>
         \o SuffixParts(name, FindFirstOf(name, NameDelimiters, pos+1))

\* the while loop of TryGuessFromFilename over the Languages of the parts:
\* the first valid one, or the invalid Language after the last
RECURSIVE FirstValid(_)
FirstValid(langs) ==
    IF langs = <<>> THEN InvalidLanguage
    ELSE IF IsValid(Head(langs)) THEN Head(langs)
    ELSE FirstValid(Tail(langs))

\* wxString::EndsWith(".lproj", &rest)
EndsWithLproj(d) ==
    Len(d) >= 6 /\ SubSeq(d, Len(d)-5, Len(d)) = S(".lproj")

\* whether the directory part reads a directory: there is one, and it is
\* not a lone LC_MESSAGES
HasGuessedDir(dirs) ==
    /\ dirs # <<>>
    /\ ~(ToLowerStr(dirs[Len(dirs)]) = S("lc_messages") /\ Len(dirs) = 1)

\* d without a trailing ".lproj"
StripLproj(d) == IF EndsWithLproj(d) THEN SubSeq(d, 1, Len(d) - 6) ELSE d

\* the directory read, with the skip of LC_MESSAGES left out
GuessedDirNoSkip(dirs) == StripLproj(dirs[Len(dirs)])

\* the directory read: the innermost, or the one around LC_MESSAGES
GuessedDir(dirs) ==
    StripLproj(dirs[IF ToLowerStr(dirs[Len(dirs)]) = S("lc_messages")
                    THEN Len(dirs) - 1
                    ELSE Len(dirs)])

\* TryGuessFromFilename that looks at the directory before the name
GuessStepsDirsFirst(whole, suffix, dir) ==
    IF IsValid(dir) THEN dir
    ELSE IF IsValid(whole) THEN whole
    ELSE suffix

\* the order of TryGuessFromFilename: whole is the Language of the name,
\* suffix the result of the loop, dir the Language of the directory
GuessSteps(whole, suffix, dir) ==
    IF IsValid(whole) THEN whole
    ELSE IF IsValid(suffix) THEN suffix
    ELSE dir

\* the directory part of TryGuessFromFilename
GuessFromDirs(dirs, names) ==
    IF HasGuessedDir(dirs)
    THEN TryParseWithValidation(GuessedDir(dirs), names)
    ELSE InvalidLanguage

\* the Languages of the parts, in the order of the loop
SuffixLanguages(parts, names) ==
    [i \in 1..Len(parts) |-> TryParseWithValidation(parts[i], names)]

\* whether a name.substr(pos+1) of the suffix loop throws
SuffixThrows(name) ==
    \E p \in 1..Len(name) :
        name[p] \in NameDelimiters /\ substr_throws(Len(name), p)

\* Language::TryGuessFromFilename(filename); fn is the wxFileName made of
\* filename after MakeAbsolute: fn.name is GetName(), fn.dirs is GetDirs()
TryGuessFromFilename(fn, names) ==
    GuessSteps(
        TryParseWithValidation(fn.name, names),
        FirstValid(SuffixLanguages(
            SuffixParts(fn.name, FindFirstOf(fn.name, NameDelimiters, 1)), names)),
        GuessFromDirs(fn.dirs, names))

---------------------------------------------------------------------------
(* Language::TryDetectFromText and the CLD2 detector behind it *)

\* CLD2::Language, a sample
UNKNOWN_LANGUAGE == "UNKNOWN_LANGUAGE"
ENGLISH == "ENGLISH"
CLD2Languages == {ENGLISH, "ITALIAN", "GERMAN", UNKNOWN_LANGUAGE}

\* CLD2::LanguageCode
LanguageCode(l) ==
    CASE l = ENGLISH -> S("en")
      [] l = "ITALIAN" -> S("it")
      [] l = "GERMAN" -> S("de")
      [] OTHER -> S("un")

\* CLD2::GetLanguageFromName
GetLanguageFromName(name) ==
    CASE name = S("en") -> ENGLISH
      [] name = S("it") -> "ITALIAN"
      [] name = S("de") -> "GERMAN"
      [] OTHER -> UNKNOWN_LANGUAGE

\* hints.language_hint as TryDetectFromText sets it from probableLanguage
LanguageHint(probableLanguage) ==
    IF IsValid(probableLanguage)
    THEN IF Lang(probableLanguage.code) = S("en")
         THEN ENGLISH
         ELSE GetLanguageFromName(probableLanguage.tag)
    ELSE UNKNOWN_LANGUAGE

\* the detected language left as CLD2 returned it
DetectedLanguageNoFix(det) == det.lang

\* the language after the fix-up for English: det is what
\* ExtDetectLanguageSummary gave, lang returned and language3 filled in
DetectedLanguage(det) ==
    IF /\ det.lang # det.language3[1]
       /\ det.language3[1] = ENGLISH
       /\ det.language3[2] = det.lang
    THEN det.language3[1]
    ELSE det.lang

\* Language::TryDetectFromText; HAVE_CLD2 is whether the build has CLD2,
\* det the outcome of ExtDetectLanguageSummary on the buffer with the hints
TryDetectFromText(HAVE_CLD2, det, probableLanguage, names) ==
    IF ~HAVE_CLD2 THEN probableLanguage
    ELSE IF det.lang = UNKNOWN_LANGUAGE \/ ~det.is_reliable THEN InvalidLanguage
    ELSE TryParse(LanguageCode(DetectedLanguage(det)), names)

---------------------------------------------------------------------------
(* The inputs *)

Alphabet == {"d", "e", "D", "E", "_", "-", "@", "1"}

\* every string over Alphabet of at most MaxLen characters
ShortStrings == UNION {[1..n -> Alphabet] : n \in 0..MaxLen}

\* strings shaped like the permissive grammar, in any case
ShapedCodes ==
    {l \o c \o v :
        l \in {S("de"), S("De"), S("DE"), S("sr"), S("ded"), S("DEd")},
        c \in {<<>>} \cup
              {<<sep>> \o x : sep \in {"_", "-"},
                             x \in {S("DE"), S("de"), S("dE"), S("RS"),
                                    S("111"), S("419")}},
        v \in {<<>>, S("@latin"), S("@Latin"), S("@cyrillic"), S("@formal"),
               S("@E"), S("@dE")}}

\* strings shaped like a BCP 47 tag
ShapedTags ==
    {l \o sc \o r \o v \o p :
        l \in {S("de"), S("sr"), S("DE"), S("ded")},
        sc \in {<<>>, S("-Latn"), S("-Cyrl"), S("-latn")},
        r \in {<<>>, S("-DE"), S("-rs"), S("-419")},
        v \in {<<>>, S("-valencia")},
        p \in {<<>>, S("-x-formal"), S("-x-latin"), S("-x-a1"), S("-x-foo-bar"),
               S("-X-Formal")}}

\* names, aliases and other strings of interest
SpecialStrings ==
    {S("zh-Hans"), S("zh-Hant"), S("Deutsch"), S("german"), S("GERMAN"),
     S("Ewe"), S("ewe"), S("serbian (latin)"), S("Serbisch (Kyrillisch)"),
     S("Usbekisch (Kyrillisch)"), S("chinese (simplified)"),
     S("Spanish (Latin America)"), S("Czech (Czechia)"),
     S("catalan (spain, valencian)"), S("hello"), S("???"), S("x-foo"),
     S("de_DE@formalxyz"), S("app-cs_CZ"), S("cs_CZ"), S("fr"), S("ar"),
     S("de-theme"), S("de-ded-DE"), S("de-1996")}

StringArgs ==
    {[kind |-> "string", s |-> s] :
        s \in ShortStrings \cup ShapedCodes \cup ShapedTags \cup SpecialStrings}

LegacyArgs ==
    {[kind |-> "legacy", lang |-> l, country |-> c] :
        l \in {<<>>, S("German"), S("Czech"), S("Serbian"), S("Klingon"),
               S("german")},
        c \in {<<>>, S("GERMANY"), S("CZECH REPUBLIC"), S("ATLANTIS"),
               S("Germany")}}

\* the pieces file names are made of
NameParts == {S("app"), S("de"), S("fr"), S("cs_CZ")}

\* names with exactly n delimiters
RECURSIVE NamesWithDelims(_)
NamesWithDelims(n) ==
    IF n = 0 THEN NameParts
    ELSE {x \o <<d>> \o y :
            x \in NamesWithDelims(n-1), d \in {".", "-"}, y \in NameParts}

FileNames == UNION {NamesWithDelims(n) : n \in 0..MaxDelims}

DirNames ==
    {S("fr"), S("sub"), S("LC_MESSAGES"), S("lc_messages"), S("cs.lproj"),
     S(".lproj"), S("cs_CZ")}

\* directory lists of at most n components
DirLists(n) == UNION {[1..k -> DirNames] : k \in 0..n}

\* every name under at most one directory, and the names of at most one
\* delimiter under every directory list
FileArgs ==
    {[kind |-> "file", dirs |-> d, name |-> n] :
        d \in DirLists(1), n \in FileNames}
    \cup
    {[kind |-> "file", dirs |-> d, name |-> n] :
        d \in DirLists(MaxDirs), n \in NamesWithDelims(0) \cup NamesWithDelims(1)}

\* what ExtDetectLanguageSummary may give for a buffer: the summary
\* language, the three best guesses and the reliability
Detections ==
    [lang : CLD2Languages, language3 : [1..3 -> CLD2Languages],
     is_reliable : BOOLEAN]

\* texts to detect: the build, the detector's outcome, the caller's hint
TextArgs ==
    {[kind |-> "text", HAVE_CLD2 |-> h, det |-> d, probableLanguage |-> p] :
        h \in BOOLEAN,
        d \in Detections,
        p \in {InvalidLanguage, LanguageInit(S("en")), LanguageInit(S("en_US")),
               LanguageInit(S("it"))}}

\* a caller of AllFormattedNames that picks the entry at a position
NameArgs ==
    {[kind |-> "names", index |-> i] :
        i \in 1..Len(BuildDisplayNamesData.sortedNames)}

---------------------------------------------------------------------------
(* The state machine: a caller with one input calls the entry points *)

LangInit ==
    /\ \/ arg \in StringArgs
       \/ arg \in LegacyArgs
       \/ arg \in FileArgs
       \/ arg \in TextArgs
       \/ arg \in NameArgs
    /\ op = "none"
    /\ lang = InvalidLanguage
    /\ buf = <<>>
    /\ again = FALSE
    /\ lang2 = InvalidLanguage
    /\ of_namesList = FALSE
    /\ data = EmptyDisplayNamesData
    /\ exc = "none"
    /\ pf = <<>>
    /\ pcall = [op |-> "none"]
    /\ ret = 0
    /\ makes = <<>>
    /\ RestIdle

\* what every call of an entry point leaves of the follow-up
FreshCall(name) ==
    /\ op' = name
    /\ again' = FALSE
    /\ lang2' = InvalidLanguage
    /\ UNCHANGED <<arg, pluralVars, restVars>>

\* a call that reads the display names runs GetDisplayNamesData
WithNames ==
    /\ data' = GetDisplayNamesData(of_namesList, data)
    /\ of_namesList' = TRUE

\* Language(code), called once IsValidCode(code) has said yes
Construct ==
    /\ arg.kind = "string"
    /\ IsValidCode(arg.s)
    /\ lang' = LanguageInit(arg.s)
    /\ exc' = Exception(InitThrows(arg.s))
    /\ FreshCall("Language")
    /\ UNCHANGED <<buf, of_namesList, data>>

CallTryNormalize ==
    /\ arg.kind = "string"
    /\ buf' = TryNormalize(arg.s)
    /\ lang' = InvalidLanguage
    /\ exc' = "none"
    /\ FreshCall("TryNormalize")
    /\ UNCHANGED <<of_namesList, data>>

CallTryParse ==
    /\ arg.kind = "string"
    /\ WithNames
    /\ lang' = TryParse(arg.s, data')
    /\ exc' = Exception(InitThrows(lang'.code))
    /\ FreshCall("TryParse")
    /\ UNCHANGED buf

CallTryParseWithValidation ==
    /\ arg.kind = "string"
    /\ WithNames
    /\ lang' = TryParseWithValidation(arg.s, data')
    /\ \E parsed \in {TryParse(arg.s, data')} :
          exc' = Exception(InitThrows(parsed.code))
    /\ FreshCall("TryParseWithValidation")
    /\ UNCHANGED buf

CallFromLanguageTag ==
    /\ arg.kind = "string"
    /\ lang' = FromLanguageTag(arg.s)
    /\ exc' = "none"
    /\ FreshCall("FromLanguageTag")
    /\ UNCHANGED <<buf, of_namesList, data>>

CallFromLegacyNames ==
    /\ arg.kind = "legacy"
    /\ lang' = FromLegacyNames(arg.lang, arg.country)
    /\ exc' = Exception(InitThrows(lang'.code))
    /\ FreshCall("FromLegacyNames")
    /\ UNCHANGED <<buf, of_namesList, data>>

CallTryGuessFromFilename ==
    /\ arg.kind = "file"
    /\ WithNames
    /\ lang' = TryGuessFromFilename(arg, data')
    /\ exc' = Exception(SuffixThrows(arg.name) \/ InitThrows(lang'.code))
    /\ FreshCall("TryGuessFromFilename")
    /\ UNCHANGED buf

CallTryDetectFromText ==
    /\ arg.kind = "text"
    /\ lang' = TryDetectFromText(arg.HAVE_CLD2, arg.det, arg.probableLanguage, data)
    /\ exc' = Exception(InitThrows(lang'.code))
    /\ FreshCall("TryDetectFromText")
    /\ UNCHANGED <<buf, of_namesList, data>>

\* Language::AllFormattedNames(): GetDisplayNamesData().sortedNames
CallAllFormattedNames ==
    /\ arg.kind = "names"
    /\ WithNames
    /\ exc' = "none"
    /\ FreshCall("AllFormattedNames")
    /\ UNCHANGED <<lang, buf>>

\* the follow-up on AllFormattedNames: TryParse of the entry the caller picked
ParseFormattedName ==
    /\ op = "AllFormattedNames"
    /\ ~again
    /\ lang' = TryParse(data.sortedNames[arg.index], data)
    /\ exc' = Exception(InitThrows(lang'.code))
    /\ again' = TRUE
    /\ UNCHANGED <<arg, op, buf, lang2, of_namesList, data, pluralVars, restVars>>

\* the follow-up on a normalized string: TryNormalize once more, in place
NormalizeAgain ==
    /\ op = "TryNormalize"
    /\ ~again
    /\ buf' = TryNormalize(buf)
    /\ again' = TRUE
    /\ UNCHANGED <<arg, op, lang, lang2, of_namesList, data, exc, pluralVars, restVars>>

\* the follow-up on a valid Language made from a code or from a tag:
\* FromLanguageTag of its LanguageTag()
ReparseLanguageTag ==
    /\ op \in {"Language", "FromLanguageTag"}
    /\ IsValid(lang)
    /\ ~again
    /\ lang2' = FromLanguageTag(lang.tag)
    /\ again' = TRUE
    /\ UNCHANGED <<arg, op, lang, buf, of_namesList, data, exc, pluralVars, restVars>>

LangNext ==
    \/ Construct
    \/ CallTryNormalize
    \/ CallTryParse
    \/ CallTryParseWithValidation
    \/ CallFromLanguageTag
    \/ CallFromLegacyNames
    \/ CallTryGuessFromFilename
    \/ CallTryDetectFromText
    \/ CallAllFormattedNames
    \/ ParseFormattedName
    \/ NormalizeAgain
    \/ ReparseLanguageTag

LangSpec == LangInit /\ [][LangNext]_vars

---------------------------------------------------------------------------
(* PluralFormsExpr *)

\* an empty std::shared_ptr<PluralFormsCalculator>
Null == [null |-> TRUE]

TAB == "\t"
Blanks == {" ", TAB}

IsNotBlank(ch) == ch \notin Blanks

\* the text with every space and every tab removed
StripBlanks(s) == SelectSeq(s, IsNotBlank)

\* boost::erase_all_copy(input, search): every occurrence of the substring
\* search is removed, scanning from the left
RECURSIVE erase_all_copy(_, _)
erase_all_copy(input, search) ==
    IF Len(input) < Len(search) THEN input
    ELSE IF SubSeq(input, 1, Len(search)) = search
         THEN erase_all_copy(From(input, Len(search) + 1), search)
         ELSE <<input[1]>> \o erase_all_copy(Tail(input), search)

\* plural expression trees of the calculator
Num(v) == [k |-> "num", v |-> v]
VarN == [k |-> "n"]
Bin(k, l, r) == [k |-> k, l |-> l, r |-> r]

RECURSIVE Eval(_, _)
Eval(e, n) ==
    CASE e.k = "num" -> e.v
      [] e.k = "n"   -> n
      [] e.k = "!="  -> IF Eval(e.l, n) # Eval(e.r, n) THEN 1 ELSE 0
      [] e.k = ">"   -> IF Eval(e.l, n) > Eval(e.r, n) THEN 1 ELSE 0
      [] e.k = "%"   -> Eval(e.l, n) % Eval(e.r, n)

Calculator(nplurals, plural) == [nplurals |-> nplurals, plural |-> plural]

NotOne == Bin("!=", VarN, Num(1))
MoreThanOne == Bin(">", VarN, Num(1))
ModThree == Bin("%", VarN, Num(3))

\* the Plural-Forms texts the calculator compiles, blanks removed
CompiledForms ==
    (S("nplurals=2;plural=(n!=1);") :> Calculator(2, NotOne)) @@
    (S("nplurals=2;plural=n!=1;")   :> Calculator(2, NotOne)) @@
    (S("nplurals=3;plural=(n!=1);") :> Calculator(3, NotOne)) @@
    (S("nplurals=2;plural=(n>1);")  :> Calculator(2, MoreThanOne)) @@
    (S("nplurals=3;plural=(n%3);")  :> Calculator(3, ModThree))

\* PluralFormsCalculator::make: the calculator of a text, Null when the
\* text does not compile
make(text) ==
    IF StripBlanks(text) \in DOMAIN CompiledForms
    THEN CompiledForms[StripBlanks(text)]
    ELSE Null

\* PluralFormsCalculator::evaluate: a form index outside the plural count
\* is 0
evaluate(c, n) ==
    IF Eval(c.plural, n) < 0 \/ Eval(c.plural, n) >= c.nplurals
    THEN 0
    ELSE Eval(c.plural, n)

\* the loop bound of operator==
MAX_EXAMPLES_COUNT == 4

\* regex_match(m_expr, m, "^nplurals=([0-9]+)"): the digits of group 1 when
\* the whole text matches, <<>> when it does not
NpluralsMatch(expr) ==
    IF /\ Len(expr) > 9
       /\ SubSeq(expr, 1, 9) = S("nplurals=")
       /\ All(From(expr, 10), DigitSet)
    THEN From(expr, 10)
    ELSE <<>>

DigitValue(c) == IndexIn(c, DigitChars) - 1

RECURSIVE StripZeros(_)
StripZeros(d) ==
    IF Len(d) > 1 /\ d[1] = "0" THEN StripZeros(Tail(d)) ELSE d

INT_MAX_DIGITS == S("2147483647")

\* a <= b for digit strings of equal length
DigitsLE(a, b) ==
    \/ a = b
    \/ \E i \in 1..Len(a) :
          /\ DigitValue(a[i]) < DigitValue(b[i])
          /\ \A j \in 1..(i - 1) : a[j] = b[j]

\* std::stoi throws std::out_of_range when the number does not fit an int
stoi_throws(d) ==
    \/ Len(StripZeros(d)) > Len(INT_MAX_DIGITS)
    \/ /\ Len(StripZeros(d)) = Len(INT_MAX_DIGITS)
       /\ ~DigitsLE(StripZeros(d), INT_MAX_DIGITS)

RECURSIVE stoi(_)
stoi(d) ==
    IF d = <<>> THEN 0
    ELSE 10 * stoi(SubSeq(d, 1, Len(d) - 1)) + DigitValue(d[Len(d)])

\* PluralFormsExpr(): m_calcCreated(true); the object holds no text and no
\* calculator, and the constructor does not assign m_nplurals
PluralFormsExprDefault(m_nplurals) ==
    [m_expr |-> <<>>, m_nplurals |-> m_nplurals,
     m_calc |-> Null, m_calcCreated |-> TRUE]

\* PluralFormsExpr(expr, nplurals)
PluralFormsExpr(expr, nplurals) ==
    [m_expr |-> expr, m_nplurals |-> nplurals,
     m_calc |-> Null, m_calcCreated |-> FALSE]

Returned(value) == [raised |-> FALSE, value |-> value]
Raised == [raised |-> TRUE]

\* int PluralFormsExpr::nplurals() const
nplurals(x) ==
    IF x.m_nplurals # -1 THEN Returned(x.m_nplurals)
    ELSE IF x.m_calc # Null THEN Returned(x.m_calc.nplurals)
    ELSE IF NpluralsMatch(x.m_expr) # <<>>
         THEN IF stoi_throws(NpluralsMatch(x.m_expr))
              THEN Raised
              ELSE Returned(stoi(NpluralsMatch(x.m_expr)))
         ELSE Returned(-1)

\* calc() that does not record that the calculator was created
calcNotRecorded(x) ==
    IF x.m_calcCreated THEN x
    ELSE [x EXCEPT !.m_calc = IF x.m_expr # <<>> THEN make(x.m_expr) ELSE @]

\* the calls of PluralFormsCalculator::make one calc() on the object does
calc_makes(x) == IF ~x.m_calcCreated /\ x.m_expr # <<>> THEN 1 ELSE 0

\* PluralFormsExpr::calc(): the object after the call; the pointer the
\* call returns is its m_calc
calc(x) ==
    IF x.m_calcCreated THEN x
    ELSE [x EXCEPT !.m_calc = IF x.m_expr # <<>> THEN make(x.m_expr) ELSE @,
                   !.m_calcCreated = TRUE]

EqResult(value, self, other) ==
    [value |-> value, self |-> self, other |-> other]

\* operator== with the second null test deciding the other way
EqStepsOneSided(x, y, expr1, expr2, cx, cy) ==
    IF x.m_expr = y.m_expr THEN EqResult(TRUE, x, y)
    ELSE IF expr1 = expr2 THEN EqResult(TRUE, x, y)
    ELSE IF cx.m_calc = Null THEN EqResult(FALSE, cx, cy)
    ELSE IF cy.m_calc = Null THEN EqResult(TRUE, cx, cy)
    ELSE IF cx.m_calc.nplurals # cy.m_calc.nplurals
         THEN EqResult(FALSE, cx, cy)
    ELSE EqResult(\A i \in 0..(MAX_EXAMPLES_COUNT - 1) :
                      evaluate(cx.m_calc, i) = evaluate(cy.m_calc, i),
                  cx, cy)

\* operator== without the comparison of the plural counts
EqStepsNoCount(x, y, expr1, expr2, cx, cy) ==
    IF x.m_expr = y.m_expr THEN EqResult(TRUE, x, y)
    ELSE IF expr1 = expr2 THEN EqResult(TRUE, x, y)
    ELSE IF cx.m_calc = Null \/ cy.m_calc = Null
         THEN EqResult(FALSE, cx, cy)
    ELSE EqResult(\A i \in 0..(MAX_EXAMPLES_COUNT - 1) :
                      evaluate(cx.m_calc, i) = evaluate(cy.m_calc, i),
                  cx, cy)

\* the steps of operator==, on the two normalised texts and on the two
\* objects after calc()
EqSteps(x, y, expr1, expr2, cx, cy) ==
    IF x.m_expr = y.m_expr THEN EqResult(TRUE, x, y)
    ELSE IF expr1 = expr2 THEN EqResult(TRUE, x, y)
    ELSE IF cx.m_calc = Null \/ cy.m_calc = Null
         THEN EqResult(FALSE, cx, cy)
    ELSE IF cx.m_calc.nplurals # cy.m_calc.nplurals
         THEN EqResult(FALSE, cx, cy)
    ELSE EqResult(\A i \in 0..(MAX_EXAMPLES_COUNT - 1) :
                      evaluate(cx.m_calc, i) = evaluate(cy.m_calc, i),
                  cx, cy)

\* bool PluralFormsExpr::operator==(const PluralFormsExpr& other) const
operator_eq(x, y) ==
    EqSteps(x, y,
            erase_all_copy(x.m_expr, <<" ", TAB>>),
            erase_all_copy(y.m_expr, <<" ", TAB>>),
            calc(x), calc(y))

\* evaluate_for_n on the calculator the object already holds
evaluate_for_n_NoCompile(x, n) ==
    [self  |-> x,
     value |-> IF x.m_calc # Null THEN evaluate(x.m_calc, n) ELSE 0]

\* whether operator== gets to call calc() on its two operands
EqCallsCalc(x, y) ==
    /\ x.m_expr # y.m_expr
    /\ erase_all_copy(x.m_expr, <<" ", TAB>>)
           # erase_all_copy(y.m_expr, <<" ", TAB>>)

\* the count of make calls after n more
Counted(count, n) == IF count + n > MaxMakes THEN MaxMakes ELSE count + n

\* int PluralFormsExpr::evaluate_for_n(int n) const
evaluate_for_n(x, n) ==
    [self  |-> calc(x),
     value |-> IF calc(x).m_calc # Null
               THEN evaluate(calc(x).m_calc, n)
               ELSE 0]

(* The PluralFormsExpr objects and arguments *)

MaxN == 3

PluralTexts ==
    { S(""),
      S("nplurals=2; plural=(n != 1);"),
      S("nplurals=2;plural=( n != 1 );"),
      S("nplurals=2; plural=n != 1;"),
      S("nplurals=3; plural=(n != 1);"),
      S("nplurals=2; plural=(n > 1);"),
      S("nplurals=3; plural=(n%3);"),
      S("garbage((("),
      S("garbage ((("),
      S("nplurals=2"),
      S("nplurals=99999999999"),
      S("a \tb"),
      S("ab") }

\* the nplurals argument of the constructor; -1 is its default
SuppliedCounts == {-1, 2, 3}

\* what m_nplurals of a default-constructed object may hold
UnassignedCounts == {-1, 3}

Instances ==
    {PluralFormsExprDefault(k) : k \in UnassignedCounts}
        \cup {PluralFormsExpr(e, k) : e \in PluralTexts, k \in SuppliedCounts}

Slots == 1..2

(* The state machine of two PluralFormsExpr objects *)

PluralInit ==
    /\ pf \in [Slots -> Instances]
    /\ pcall = [op |-> "none"]
    /\ ret = 0
    /\ makes = [i \in Slots |-> 0]
    /\ exc = "none"
    /\ arg = [kind |-> "plural"]
    /\ op = "none"
    /\ lang = InvalidLanguage
    /\ lang2 = InvalidLanguage
    /\ buf = <<>>
    /\ again = FALSE
    /\ of_namesList = FALSE
    /\ data = EmptyDisplayNamesData
    /\ RestIdle

CallNplurals ==
    \E i \in Slots :
      \E r \in {nplurals(pf[i])} :
        /\ pcall' = [op |-> "nplurals", i |-> i]
        /\ exc' = Exception(r.raised)
        /\ ret' = IF r.raised THEN "no value" ELSE r.value
        /\ UNCHANGED <<pf, makes, langVars, restVars>>

CallEvaluateForN ==
    \E i \in Slots, n \in 0..MaxN :
      \E r \in {evaluate_for_n(pf[i], n)} :
        /\ pcall' = [op |-> "evaluate_for_n", i |-> i, n |-> n]
        /\ pf' = [pf EXCEPT ![i] = r.self]
        /\ makes' = [makes EXCEPT ![i] = Counted(@, calc_makes(pf[i]))]
        /\ exc' = "none"
        /\ ret' = r.value
        /\ UNCHANGED <<langVars, restVars>>

\* pf[i] == pf[j]; with i = j the object is compared with itself
CallEquals ==
    \E i \in Slots, j \in Slots :
      \E r \in {operator_eq(pf[i], pf[j])} :
        /\ pcall' = [op |-> "operator==", i |-> i, j |-> j]
        /\ pf' = [pf EXCEPT ![i] = r.self, ![j] = r.other]
        /\ makes' = IF EqCallsCalc(pf[i], pf[j])
                     THEN [makes EXCEPT ![i] = Counted(@, calc_makes(pf[i])),
                                        ![j] = Counted(@, calc_makes(pf[j]))]
                     ELSE makes
        /\ exc' = "none"
        /\ ret' = r.value
        /\ UNCHANGED <<langVars, restVars>>

PluralNext ==
    \/ CallNplurals
    \/ CallEvaluateForN
    \/ CallEquals

PluralSpec == PluralInit /\ [][PluralNext]_vars

---------------------------------------------------------------------------
(* GetDisplayNamesData called from several threads *)

\* std::call_once lets a thread run the body with no check of another
\* thread being in it
CanEnterUnguarded(completed, active) == ~completed

\* std::call_once: a thread runs the body when the flag is not set and no
\* other thread is executing the body
CanEnter(completed, active) == ~completed /\ active = 0

\* std::call_once: a thread passes without running the body once the flag
\* is set; it waits while another thread executes the body
CanPass(completed, active) == completed

\* the loop of the body: every locale without variant is put into
\* data.names and data.namesEng
BodyLoop(current) ==
    [current EXCEPT
        !.names = NamesLoop(1, [current EXCEPT !.sortedNames = <<>>]).names,
        !.namesEng = NamesLoop(1, [current EXCEPT !.sortedNames = <<>>]).namesEng]

\* the end of the body: the sorted names are pushed back to data.sortedNames
BodyPushSorted(current) ==
    [current EXCEPT !.sortedNames = @ \o BuildDisplayNamesData.sortedNames]

At(t, where) == [thr EXCEPT ![t].pc = where]

OnceInit ==
    /\ RestIdle
    /\ of_namesList = FALSE
    /\ data = EmptyDisplayNamesData
    /\ arg = [kind |-> "threads"]
    /\ op = "none"
    /\ lang = InvalidLanguage
    /\ lang2 = InvalidLanguage
    /\ buf = <<>>
    /\ again = FALSE
    /\ exc = "none"
    /\ pf = <<>>
    /\ pcall = [op |-> "none"]
    /\ ret = 0
    /\ makes = <<>>

OnceFrame ==
    UNCHANGED <<arg, op, lang, buf, again, lang2, exc, pluralVars, hookCalls,
                invoked>>

\* a thread calls GetDisplayNamesData and arrives at std::call_once
ThreadCall ==
    \E t \in Threads :
        /\ thr[t].pc = "idle"
        /\ thr[t].calls < MaxCalls
        /\ thr' = At(t, "call_once")
        /\ UNCHANGED <<of_namesList, data, runner, builds>>
        /\ OnceFrame

\* call_once starts the body in this thread
ThreadEnterBody ==
    \E t \in Threads :
        /\ thr[t].pc = "call_once"
        /\ CanEnter(of_namesList, runner)
        /\ runner' = t
        /\ builds' = builds + 1
        /\ thr' = At(t, "loop")
        /\ UNCHANGED <<of_namesList, data>>
        /\ OnceFrame

ThreadBodyLoop ==
    \E t \in Threads :
        /\ thr[t].pc = "loop"
        /\ data' = BodyLoop(data)
        /\ thr' = At(t, "push")
        /\ UNCHANGED <<of_namesList, runner, builds>>
        /\ OnceFrame

ThreadBodyPushSorted ==
    \E t \in Threads :
        /\ thr[t].pc = "push"
        /\ data' = BodyPushSorted(data)
        /\ thr' = At(t, "end")
        /\ UNCHANGED <<of_namesList, runner, builds>>
        /\ OnceFrame

\* the body returns: call_once sets the flag and releases the waiting threads
ThreadLeaveBody ==
    \E t \in Threads :
        /\ thr[t].pc = "end"
        /\ of_namesList' = TRUE
        /\ runner' = IF runner = t THEN 0 ELSE runner
        /\ thr' = At(t, "return")
        /\ UNCHANGED <<data, builds>>
        /\ OnceFrame

\* call_once returns without running the body
ThreadPass ==
    \E t \in Threads :
        /\ thr[t].pc = "call_once"
        /\ CanPass(of_namesList, runner)
        /\ thr' = At(t, "return")
        /\ UNCHANGED <<of_namesList, data, runner, builds>>
        /\ OnceFrame

\* return data: the caller reads the index
ThreadReturn ==
    \E t \in Threads :
        /\ thr[t].pc = "return"
        /\ thr' = [thr EXCEPT ![t] = [pc |-> "idle", calls |-> @.calls + 1,
                                      seen |-> data]]
        /\ UNCHANGED <<of_namesList, data, runner, builds>>
        /\ OnceFrame

OnceNext ==
    \/ ThreadCall
    \/ ThreadEnterBody
    \/ ThreadBodyLoop
    \/ ThreadBodyPushSorted
    \/ ThreadLeaveBody
    \/ ThreadPass
    \/ ThreadReturn

OnceSpec == OnceInit /\ [][OnceNext]_vars

---------------------------------------------------------------------------
(* Language::DefaultPluralFormsExpr *)

\* language_impl_plurals.h, a sample: codes with their default expression
forms ==
    (S("de")          :> PluralFormsExpr(S("nplurals=2; plural=(n != 1);"), 2)) @@
    (S("pt")          :> PluralFormsExpr(S("nplurals=2; plural=(n != 1);"), 2)) @@
    (S("pt_BR")       :> PluralFormsExpr(S("nplurals=2; plural=(n > 1);"), 2)) @@
    (S("ca")          :> PluralFormsExpr(S("nplurals=2; plural=(n != 1);"), 2)) @@
    (S("ca_ES")       :> PluralFormsExpr(S("nplurals=2; plural=(n > 1);"), 2)) @@
    (S("sr")          :> PluralFormsExpr(S("nplurals=3; plural=(n%3);"), 3)) @@
    (S("sr_RS@latin") :> PluralFormsExpr(S("nplurals=2; plural=(n != 1);"), 2))

\* DefaultPluralFormsExpr that looks up the bare language first
DefaultPluralFormsExprBareFirst(l, unassigned) ==
    IF ~IsValid(l) THEN PluralFormsExprDefault(unassigned)
    ELSE IF Lang(l.code) \in DOMAIN forms THEN forms[Lang(l.code)]
    ELSE IF LangAndCountry(l.code) \in DOMAIN forms
         THEN forms[LangAndCountry(l.code)]
    ELSE IF l.code \in DOMAIN forms THEN forms[l.code]
    ELSE PluralFormsExprDefault(unassigned)

\* PluralFormsExpr Language::DefaultPluralFormsExpr() const; unassigned is
\* what m_nplurals of a default-constructed PluralFormsExpr holds
DefaultPluralFormsExpr(l, unassigned) ==
    IF ~IsValid(l) THEN PluralFormsExprDefault(unassigned)
    ELSE IF l.code \in DOMAIN forms THEN forms[l.code]
    ELSE IF LangAndCountry(l.code) \in DOMAIN forms
         THEN forms[LangAndCountry(l.code)]
    ELSE IF Lang(l.code) \in DOMAIN forms THEN forms[Lang(l.code)]
    ELSE PluralFormsExprDefault(unassigned)

FormsCodes ==
    { S(l) \o c \o v :
        l \in {"de", "pt", "ca", "sr", "xx"},
        c \in {<<>>, S("_BR"), S("_ES"), S("_RS")},
        v \in {<<>>, S("@latin"), S("@valencia")} }

FormsInit ==
    /\ lang \in {LanguageInit(code) : code \in FormsCodes} \cup {InvalidLanguage}
    /\ arg = [kind |-> "language"]
    /\ op = "none"
    /\ lang2 = InvalidLanguage
    /\ buf = <<>>
    /\ again = FALSE
    /\ of_namesList = FALSE
    /\ data = EmptyDisplayNamesData
    /\ exc = "none"
    /\ pf = <<>>
    /\ pcall = [op |-> "none"]
    /\ ret = 0
    /\ makes = <<>>
    /\ RestIdle

CallDefaultPluralFormsExpr ==
    /\ pcall.op = "none"
    /\ \E unassigned \in UnassignedCounts :
          ret' = DefaultPluralFormsExpr(lang, unassigned)
    /\ pcall' = [op |-> "DefaultPluralFormsExpr"]
    /\ UNCHANGED <<langVars, exc, pf, makes, restVars>>

FormsNext == CallDefaultPluralFormsExpr

FormsSpec == FormsInit /\ [][FormsNext]_vars

---------------------------------------------------------------------------
(* http_client::impl::handle_error *)

\* ::json::parse of the response body throws on a body that is not JSON
json_parse_throws(body) == body = "not json"

\* http_client::parse_json_error, the default and two overrides: one that
\* extracts the "error" member, one that throws
parse_json_error(override, body) ==
    CASE override = "default" -> [raised |-> FALSE, value |-> ""]
      [] override = "extract" ->
            [raised |-> FALSE,
             value  |-> IF body = "json with error" THEN "token expired" ELSE ""]
      [] override = "throws"  -> [raised |-> TRUE, value |-> ""]

\* http_client::on_error_response(int&, std::string&), the default and an
\* override that rewrites both arguments
on_error_response(override, statusCode, message) ==
    IF override = "rewrite"
    THEN [status |-> 401, msg |-> "please sign in again"]
    ELSE [status |-> statusCode, msg |-> message]

\* msg after the try block
JsonMessage(r) ==
    IF r.content_type = "application/json"
    THEN IF json_parse_throws(r.body) THEN ""
         ELSE IF parse_json_error(r.parser, r.body).raised THEN ""
         ELSE parse_json_error(r.parser, r.body).value
    ELSE ""

\* msg handed to on_error_response
ErrorMessage(r) ==
    IF JsonMessage(r) = "" THEN r.reason_phrase ELSE JsonMessage(r)

NoError == [calls |-> <<>>, thrown |-> FALSE]

\* handle_error that throws what it had before the hook ran
handle_errorBeforeHook(r) ==
    IF r.status_code >= 200 /\ r.status_code < 300 THEN NoError
    ELSE [calls   |-> <<[status |-> r.status_code, msg |-> ErrorMessage(r)]>>,
          thrown  |-> TRUE,
          carried |-> [status |-> r.status_code, msg |-> ErrorMessage(r)]]

\* void handle_error(http::http_response r): the calls of the hook, whether
\* http_exception is thrown and what it carries
handle_error(r) ==
    IF r.status_code >= 200 /\ r.status_code < 300 THEN NoError
    ELSE [calls   |-> <<[status |-> r.status_code, msg |-> ErrorMessage(r)]>>,
          thrown  |-> TRUE,
          carried |-> on_error_response(r.hook, r.status_code, ErrorMessage(r))]

\* the responses and the overrides of the client that receives them
Responses ==
    [kind : {"response"},
     status_code : {100, 199, 200, 204, 299, 300, 404, 500},
     content_type : {"application/json", "application/json; charset=utf-8",
                     "text/html"},
     body : {"not json", "json with error", "json"},
     reason_phrase : {"Not Found", ""},
     parser : {"default", "extract", "throws"},
     hook : {"default", "rewrite"}]

HttpInit ==
    /\ arg \in Responses
    /\ op = "none"
    /\ lang = InvalidLanguage
    /\ lang2 = InvalidLanguage
    /\ buf = <<>>
    /\ again = FALSE
    /\ of_namesList = FALSE
    /\ data = EmptyDisplayNamesData
    /\ exc = "none"
    /\ pf = <<>>
    /\ pcall = [op |-> "none"]
    /\ ret = 0
    /\ makes = <<>>
    /\ RestIdle

CallHandleError ==
    /\ pcall.op = "none"
    /\ \E r \in {handle_error(arg)} :
          /\ hookCalls' = hookCalls \o r.calls
          /\ exc' = IF r.thrown THEN "http::http_exception" ELSE "none"
          /\ ret' = IF r.thrown THEN r.carried ELSE ret
    /\ pcall' = [op |-> "handle_error"]
    /\ UNCHANGED <<langVars, pf, makes, onceVars, invoked>>

HttpNext == CallHandleError

HttpSpec == HttpInit /\ [][HttpNext]_vars

---------------------------------------------------------------------------
(* QACheck and QAChecker *)

\* CheckString as the checks override it: "bad" flags the translation
\* "bad", "plural" flags any translation compared with the plural source,
\* "never" flags nothing
CheckString(check, source, translation) ==
    CASE check = "bad"    -> translation = "bad"
      [] check = "plural" -> source = "sources"
      [] OTHER            -> FALSE

StringCall(i, source, translation, result) ==
    [i |-> i, source |-> source, translation |-> translation, result |-> result]

ItemResult(result, calls) == [result |-> result, calls |-> calls]

\* the loop of CheckItem over the translations from 1 + i on
RECURSIVE PluralLoop(_, _, _)
PluralLoop(check, item, i) ==
    IF i >= Len(item.translations) THEN ItemResult(FALSE, <<>>)
    ELSE IF item.translations[i + 1] = "" THEN PluralLoop(check, item, i + 1)
    ELSE IF CheckString(check, item.pluralString, item.translations[i + 1])
         THEN ItemResult(TRUE, <<StringCall(i, item.pluralString,
                                            item.translations[i + 1], TRUE)>>)
         ELSE ItemResult(PluralLoop(check, item, i + 1).result,
                         <<StringCall(i, item.pluralString,
                                      item.translations[i + 1], FALSE)>>
                             \o PluralLoop(check, item, i + 1).calls)

\* CheckItem that hands the first translation to CheckString even if empty
DefaultCheckItemWithEmpty(check, item) ==
    IF CheckString(check, item.string, item.translations[1])
    THEN ItemResult(TRUE, <<StringCall(0, item.string, item.translations[1], TRUE)>>)
    ELSE ItemResult(
            item.hasPlural /\ PluralLoop(check, item, 1).result,
            <<StringCall(0, item.string, item.translations[1], FALSE)>>
                \o (IF item.hasPlural THEN PluralLoop(check, item, 1).calls
                    ELSE <<>>))

\* bool QACheck::CheckItem(CatalogItemPtr item): the result and the calls of
\* CheckString
DefaultCheckItem(check, item) ==
    IF item.translations[1] # ""
       /\ CheckString(check, item.string, item.translations[1])
    THEN ItemResult(TRUE, <<StringCall(0, item.string, item.translations[1], TRUE)>>)
    ELSE ItemResult(
            item.hasPlural /\ PluralLoop(check, item, 1).result,
            (IF item.translations[1] # ""
             THEN <<StringCall(0, item.string, item.translations[1], FALSE)>>
             ELSE <<>>)
                \o (IF item.hasPlural THEN PluralLoop(check, item, 1).calls
                    ELSE <<>>))

\* CheckItem of a registered check: "always" overrides CheckItem itself, the
\* others override CheckString
CheckItem(check, item) ==
    IF check = "always" THEN ItemResult(TRUE, <<>>)
    ELSE DefaultCheckItem(check, item)

\* the test at the top of the loop of QAChecker::Check
Skipped(item) ==
    item.string = "" \/ (item.hasPlural /\ item.pluralString = "")

\* int QAChecker::Check(CatalogItemPtr item) from check k on: the issues
\* counted and the CheckItem calls made
RECURSIVE CheckFrom(_, _, _)
CheckFrom(m_checks, item, k) ==
    IF k > Len(m_checks) THEN [issues |-> 0, invoked |-> <<>>]
    ELSE IF Skipped(item) THEN CheckFrom(m_checks, item, k + 1)
    ELSE [issues  |-> (IF CheckItem(m_checks[k], item).result THEN 1 ELSE 0)
                        + CheckFrom(m_checks, item, k + 1).issues,
          invoked |-> <<[check  |-> k,
                         result |-> CheckItem(m_checks[k], item).result,
                         calls  |-> CheckItem(m_checks[k], item).calls]>>
                        \o CheckFrom(m_checks, item, k + 1).invoked]

Check(m_checks, item) == CheckFrom(m_checks, item, 1)

(* The catalog items and the checkers *)

CatalogItems ==
    [string : {"", "source"},
     hasPlural : BOOLEAN,
     pluralString : {"", "sources"},
     translations : UNION {[1..n -> {"", "ok", "bad"}] : n \in 1..MaxTranslations}]

Checkers ==
    UNION {[1..n -> {"bad", "plural", "never", "always"}] : n \in 0..MaxChecks}

QaInit ==
    /\ arg \in [kind : {"item"}, item : CatalogItems, m_checks : Checkers]
    /\ op = "none"
    /\ lang = InvalidLanguage
    /\ lang2 = InvalidLanguage
    /\ buf = <<>>
    /\ again = FALSE
    /\ of_namesList = FALSE
    /\ data = EmptyDisplayNamesData
    /\ exc = "none"
    /\ pf = <<>>
    /\ pcall = [op |-> "none"]
    /\ ret = 0
    /\ makes = <<>>
    /\ RestIdle

CallCheck ==
    /\ pcall.op = "none"
    /\ \E r \in {Check(arg.m_checks, arg.item)} :
          /\ ret' = r.issues
          /\ invoked' = r.invoked
    /\ pcall' = [op |-> "Check"]
    /\ UNCHANGED <<langVars, exc, pf, makes, onceVars, hookCalls>>

QaNext == CallCheck

QaSpec == QaInit /\ [][QaNext]_vars

---------------------------------------------------------------------------
(* The claims *)

\* the entry points that return a Language
ParseEntryPoints ==
    {"Language", "TryParse", "TryParseWithValidation", "FromLanguageTag",
     "FromLegacyNames", "TryGuessFromFilename"}

\* C1: the Language any parse entry point returns has a code that is empty
\* or matches the canonical grammar.
C1_CodeEmptyOrCanonical ==
    op \in ParseEntryPoints => (lang.code = <<>> \/ MatchLangCode(lang.code))

\* the steps of TryParse that succeed on s with the display names in names
StepStrict(s) == MatchLangCode(s)
StepAlias(s) == s \in {S("zh-Hans"), S("zh-Hant")}
StepPermissive(s) == MatchLangCodePermissive(s) /\ MatchLangCode(TryNormalize(s))
StepName(s, names) == ToLowerStr(s) \in DOMAIN names.names
StepNameEng(s, names) == ToLowerStr(s) \in DOMAIN names.namesEng
StepTag(s) == FromLanguageTag(s).code # <<>>

\* C2: TryParse(s) returns the result of the first step that succeeds, in
\* the order strict match (s itself), the two zh aliases, permissive match
\* with TryNormalize, localized display name, English display name,
\* FromLanguageTag; it is invalid only when all six fail.
C2_TryParseFirstSuccess ==
    op = "TryParse" =>
        LET s == arg.s
        IN  /\ StepStrict(s) => lang.code = s
            /\ (~StepStrict(s) /\ s = S("zh-Hans")) => lang.code = S("zh_CN")
            /\ (~StepStrict(s) /\ s = S("zh-Hant")) => lang.code = S("zh_TW")
            /\ (~StepStrict(s) /\ ~StepAlias(s) /\ StepPermissive(s))
                  => lang.code = TryNormalize(s)
            /\ (~StepStrict(s) /\ ~StepAlias(s) /\ ~StepPermissive(s)
                 /\ StepName(s, data))
                  => lang.code = data.names[ToLowerStr(s)]
            /\ (~StepStrict(s) /\ ~StepAlias(s) /\ ~StepPermissive(s)
                 /\ ~StepName(s, data) /\ StepNameEng(s, data))
                  => lang.code = data.namesEng[ToLowerStr(s)]
            /\ (~StepStrict(s) /\ ~StepAlias(s) /\ ~StepPermissive(s)
                 /\ ~StepName(s, data) /\ ~StepNameEng(s, data) /\ StepTag(s))
                  => lang = FromLanguageTag(s)
            /\ (~StepStrict(s) /\ ~StepAlias(s) /\ ~StepPermissive(s)
                 /\ ~StepName(s, data) /\ ~StepNameEng(s, data) /\ ~StepTag(s))
                  => lang = InvalidLanguage

\* TryParse("Ewe"): the permissive match wins over the display name "Ewe"
\* of the language ee and over the tag
C2_Witness ==
    /\ op = "TryParse"
    /\ arg.s = S("Ewe")
    /\ StepPermissive(arg.s) /\ StepName(arg.s, data) /\ StepTag(arg.s)
    /\ data.names[ToLowerStr(arg.s)] = S("ee")
    /\ lang.code = S("ewe")

\* where the language of a string of the permissive grammar ends
PermissiveLangLen(s) ==
    IF Len(s) >= 3 /\ isalpha(s[3]) THEN 3 ELSE 2

\* s with '-' replaced by '_', the language lowercased, the country
\* uppercased and the variant (from '@' on) lowercased
ExpectedNormalForm(s) ==
    [i \in 1..Len(s) |->
        IF i <= PermissiveLangLen(s) THEN tolower(s[i])
        ELSE IF s[i] = "-" THEN "_"
        ELSE IF \E j \in 1..i : s[j] = "@" THEN tolower(s[i])
        ELSE toupper(s[i])]

\* C3: for s of the permissive grammar TryNormalize(s) matches the strict
\* grammar, and TryParse(s) is valid with the code s with '-' replaced by
\* '_', the language lowercased, the country uppercased and the variant
\* lowercased.
C3_PermissiveNormalizes ==
    /\ (op = "TryNormalize" /\ MatchLangCodePermissive(arg.s))
          => (MatchLangCode(buf) /\ buf = ExpectedNormalForm(arg.s))
    /\ (op = "TryParse" /\ MatchLangCodePermissive(arg.s))
          => (lang.code # <<>> /\ lang.code = ExpectedNormalForm(arg.s))

\* TryParse("DE-de") is de_DE
C3_Witness ==
    /\ op = "TryParse"
    /\ arg.s = S("DE-de")
    /\ MatchLangCodePermissive(arg.s)
    /\ lang.code = S("de_DE")

\* C4: TryNormalize is idempotent on every string: the second pass over
\* the buffer leaves what the first pass made of the string.
C4_NormalizeIdempotent ==
    (op = "TryNormalize" /\ again) => buf = TryNormalize(arg.s)

\* a second pass ran on a string outside the permissive grammar with
\* several '@' and a '-', which the first pass changed
C4_Witness ==
    /\ op = "TryNormalize"
    /\ again
    /\ ~MatchLangCodePermissive(arg.s)
    /\ Cardinality({i \in 1..Len(arg.s) : arg.s[i] = "@"}) >= 2
    /\ \E i \in 1..Len(arg.s) : arg.s[i] = "-"
    /\ buf # arg.s

\* C5: TryParseWithValidation(s) is invalid or equal to TryParse(s), and
\* valid exactly when TryParse(s) is valid, its Lang() is an ISO language
\* and its Country() is empty or an ISO country.
C5_ValidationFilters ==
    op = "TryParseWithValidation" =>
        /\ lang = InvalidLanguage \/ lang = TryParse(arg.s, data)
        /\ lang.code # <<>>
             <=> /\ TryParse(arg.s, data).code # <<>>
                 /\ Lang(TryParse(arg.s, data).code) \in ISOLanguages
                 /\ \/ Country(TryParse(arg.s, data).code) = <<>>
                    \/ Country(TryParse(arg.s, data).code) \in ISOCountries

\* a code TryParse accepts, with an ISO language, rejected for its country
C5_Witness ==
    /\ op = "TryParseWithValidation"
    /\ lang = InvalidLanguage
    /\ TryParse(arg.s, data).code # <<>>
    /\ Lang(TryParse(arg.s, data).code) \in ISOLanguages
    /\ Country(TryParse(arg.s, data).code) \notin ISOCountries

\* the parts of a code of the canonical grammar, read off the grammar
CanonLang(c) == SubSeq(c, 1, IF Len(c) >= 3 /\ islower(c[3]) THEN 3 ELSE 2)
CanonCountry(c) ==
    IF Len(c) > Len(CanonLang(c)) /\ c[Len(CanonLang(c)) + 1] = "_"
    THEN SubSeq(c, Len(CanonLang(c)) + 2,
                Len(CanonLang(c)) + (IF isdigit(c[Len(CanonLang(c)) + 2]) THEN 4 ELSE 3))
    ELSE <<>>
CanonVariant(c) ==
    IF \E i \in 1..Len(c) : c[i] = "@"
    THEN SubSeq(c, 1 + CHOOSE i \in 1..Len(c) : c[i] = "@", Len(c))
    ELSE <<>>

\* C6: for a canonical code lang[_COUNTRY][@variant] the tag of Init is
\* lang, then -Latn for the variant latin or -Cyrl for cyrillic, then
\* -COUNTRY, then -x-variant for any other variant.
C6_LanguageTagLayout ==
    op = "Language" =>
        /\ lang.tag =
              CanonLang(arg.s)
              \o (IF CanonVariant(arg.s) = S("latin") THEN S("-Latn")
                  ELSE IF CanonVariant(arg.s) = S("cyrillic") THEN S("-Cyrl")
                  ELSE <<>>)
              \o (IF CanonCountry(arg.s) # <<>>
                  THEN S("-") \o CanonCountry(arg.s) ELSE <<>>)
              \o (IF CanonVariant(arg.s) \notin {<<>>, S("latin"), S("cyrillic")}
                  THEN S("-x-") \o CanonVariant(arg.s) ELSE <<>>)
        /\ arg.s = S("sr@latin") => lang.tag = S("sr-Latn")
        /\ arg.s = S("sr_RS@latin") => lang.tag = S("sr-Latn-RS")
        /\ arg.s = S("de_DE@formal") => lang.tag = S("de-DE-x-formal")

\* Language("sr_RS@latin") has the tag sr-Latn-RS
C6_Witness ==
    /\ op = "Language"
    /\ arg.s = S("sr_RS@latin")
    /\ lang.tag = S("sr-Latn-RS")

C8_TagRoundTrip ==
    (op = "Language" /\ again) => lang2.code = lang.code

\* the delimiter positions of a file name whose suffix is a valid Language
ValidSuffixPositions(name, names) ==
    {p \in 1..Len(name) :
        /\ name[p] \in {".", "-", "_"}
        /\ TryParseWithValidation(SubSeq(name, p+1, Len(name)), names).code # <<>>}

Minimum(set) == CHOOSE x \in set : \A y \in set : x <= y
Maximum(set) == CHOOSE x \in set : \A y \in set : x >= y

\* C9: TryGuessFromFilename returns TryParseWithValidation of the whole
\* name when that is valid, else of the suffix after the leftmost delimiter
\* whose suffix is valid; directories count only when none is.
C9_NameBeforeSuffixesBeforeDirs ==
    op = "TryGuessFromFilename" =>
        /\ TryParseWithValidation(arg.name, data).code # <<>>
              => lang = TryParseWithValidation(arg.name, data)
        /\ (TryParseWithValidation(arg.name, data).code = <<>>
            /\ ValidSuffixPositions(arg.name, data) # {})
              => lang = TryParseWithValidation(
                           SubSeq(arg.name,
                                  Minimum(ValidSuffixPositions(arg.name, data)) + 1,
                                  Len(arg.name)),
                           data)
        /\ arg.name = S("app-cs_CZ") => lang.code = S("cs_CZ")

\* cs_CZ/app-de-fr.po is de_FR: the name is no language, the suffixes de-fr
\* and fr both are, and so is the directory
C9_Witness ==
    /\ op = "TryGuessFromFilename"
    /\ arg.name = S("app-de-fr")
    /\ arg.dirs = <<S("cs_CZ")>>
    /\ TryParseWithValidation(arg.name, data).code = <<>>
    /\ Cardinality(ValidSuffixPositions(arg.name, data)) = 2
    /\ TryParseWithValidation(S("cs_CZ"), data).code # <<>>
    /\ lang.code = S("de_FR")

\* neither the name nor a suffix of it is a valid Language
NameFails(name, names) ==
    /\ TryParseWithValidation(name, names).code = <<>>
    /\ ValidSuffixPositions(name, names) = {}

\* a directory name as the claims read it: without a trailing ".lproj"
WithoutLproj(d) ==
    IF Len(d) >= 6 /\ SubSeq(d, Len(d) - 5, Len(d)) = S(".lproj")
    THEN SubSeq(d, 1, Len(d) - 6)
    ELSE d

IsLcMessages(d) == ToLowerStr(d) = S("lc_messages")

\* the directory components TryParseWithValidation accepts
AcceptedDirs(dirs, names) ==
    {i \in 1..Len(dirs) :
        /\ ~IsLcMessages(dirs[i])
        /\ TryParseWithValidation(WithoutLproj(dirs[i]), names).code # <<>>}

\* C10 as stated: when the name fails, the result is the innermost
\* directory component, LC_MESSAGES skipped and .lproj stripped, that
\* TryParseWithValidation accepts, and invalid only if none is accepted.
C10_InnermostAcceptedDir ==
    (op = "TryGuessFromFilename" /\ NameFails(arg.name, data)) =>
        IF AcceptedDirs(arg.dirs, data) # {}
        THEN lang = TryParseWithValidation(
                       WithoutLproj(arg.dirs[Maximum(AcceptedDirs(arg.dirs, data))]),
                       data)
        ELSE lang = InvalidLanguage

\* the one directory component the code reads: the innermost, or the one
\* around an innermost LC_MESSAGES; 0 when there is none
DirRead(dirs) ==
    IF dirs = <<>> THEN 0
    ELSE IF IsLcMessages(dirs[Len(dirs)]) THEN Len(dirs) - 1
    ELSE Len(dirs)

\* C10 as amended: when the name fails, the result is TryParseWithValidation
\* of one directory component, the innermost or the one around an innermost
\* LC_MESSAGES, with .lproj stripped; invalid when there is no such
\* component; components further out are not read.
C10_OneDirOnly ==
    (op = "TryGuessFromFilename" /\ NameFails(arg.name, data)) =>
        IF DirRead(arg.dirs) = 0
        THEN lang = InvalidLanguage
        ELSE lang = TryParseWithValidation(
                       WithoutLproj(arg.dirs[DirRead(arg.dirs)]), data)

\* fr/LC_MESSAGES/app.po: the name fails, LC_MESSAGES is skipped, fr read
C10_Witness ==
    /\ op = "TryGuessFromFilename"
    /\ arg.name = S("app")
    /\ arg.dirs = <<S("fr"), S("LC_MESSAGES")>>
    /\ NameFails(arg.name, data)
    /\ lang.code = S("fr")

\* C11 as stated: with a detector and a reliable detection, the result is
\* English when the second-best guess is the caller's hint, the hint is
\* English and the top guess is another language; otherwise the top guess.
C11_EnglishWhenHintIsSecond ==
    (/\ op = "TryDetectFromText"
     /\ arg.HAVE_CLD2
     /\ arg.det.is_reliable
     /\ arg.det.lang # UNKNOWN_LANGUAGE)
        => lang.code =
              IF /\ arg.det.language3[2] = LanguageHint(arg.probableLanguage)
                 /\ LanguageHint(arg.probableLanguage) = ENGLISH
                 /\ arg.det.lang # ENGLISH
              THEN S("en")
              ELSE LanguageCode(arg.det.lang)

\* C11 as amended: with a detector and a reliable detection, the result is
\* English when the summary language differs from the first of the three
\* guesses, that first guess is English and the second guess is the summary
\* language; otherwise it is the summary language; the hint has no part.
C11_EnglishWhenFirstOfThree ==
    (/\ op = "TryDetectFromText"
     /\ arg.HAVE_CLD2
     /\ arg.det.is_reliable
     /\ arg.det.lang # UNKNOWN_LANGUAGE)
        => lang.code =
              IF /\ arg.det.language3[1] = ENGLISH
                 /\ arg.det.language3[2] = arg.det.lang
                 /\ arg.det.lang # ENGLISH
              THEN S("en")
              ELSE LanguageCode(arg.det.lang)

\* a reliable detection of Italian with the guesses English, Italian gave
\* English, the caller's hint being Italian
C11_Witness ==
    /\ op = "TryDetectFromText"
    /\ arg.HAVE_CLD2
    /\ arg.det.is_reliable
    /\ arg.det.lang = "ITALIAN"
    /\ arg.det.language3[1] = ENGLISH
    /\ arg.det.language3[2] = "ITALIAN"
    /\ LanguageHint(arg.probableLanguage) = "ITALIAN"
    /\ lang.code = S("en")

\* the parse operations C12 names
ParseOperations ==
    {"TryParse", "TryParseWithValidation", "FromLanguageTag",
     "FromLegacyNames", "TryGuessFromFilename"}

\* C12: every parse operation returns on every input, the empty string and
\* "???" included: no exception escapes, and the result is a Language that
\* is valid or has the empty code; the empty string and "???" give the
\* invalid Language.
C12_ParseOperationsTotal ==
    op \in ParseOperations =>
        /\ exc = "none"
        /\ DOMAIN lang = {"code", "tag", "icuLocale", "direction"}
        /\ lang.code = <<>> => (lang.icuLocale = <<>> /\ lang.direction = LTR)
        /\ (arg.kind = "string" /\ arg.s \in {<<>>, S("???")})
              => lang.code = <<>>
        /\ (arg.kind = "legacy" /\ arg.lang = <<>>) => lang = InvalidLanguage

\* TryParse("???") returned the invalid Language
C12_Witness ==
    /\ op = "TryParse"
    /\ arg.s = S("???")
    /\ exc = "none"
    /\ lang = InvalidLanguage

\* C13: no PluralFormsExpr operation raises: whatever the expression text
\* and the supplied cardinality of the objects, every call of nplurals(),
\* evaluate_for_n(n) and operator== returns a value
C13_NoPluralOperationRaises ==
    pcall.op # "none" => exc = "none"

\* the digits right after a leading "nplurals=", <<>> when the text does
\* not start with "nplurals=" and a digit
RECURSIVE LeadingDigits(_)
LeadingDigits(s) ==
    IF s # <<>> /\ isdigit(s[1])
    THEN <<s[1]>> \o LeadingDigits(Tail(s))
    ELSE <<>>

NpluralsPrefix(expr) ==
    IF Len(expr) > 9 /\ SubSeq(expr, 1, 9) = S("nplurals=")
    THEN LeadingDigits(From(expr, 10))
    ELSE <<>>

\* what the sentence about nplurals() gives for an object
StatedNplurals(x) ==
    IF x.m_nplurals # -1 THEN x.m_nplurals
    ELSE IF calc(x).m_calc # Null THEN calc(x).m_calc.nplurals
    ELSE IF NpluralsPrefix(x.m_expr) # <<>> THEN stoi(NpluralsPrefix(x.m_expr))
    ELSE -1

\* C14: nplurals() returns the supplied cardinality when one was given;
\* otherwise the plural count of the calculator, compiling the expression
\* if that was not done yet; otherwise the number of a leading "nplurals=N"
\* of the text; otherwise -1
C14_NpluralsOrder ==
    (pcall.op = "nplurals" /\ exc = "none")
        => ret = StatedNplurals(pf[pcall.i])

\* the text compiles to a calculator
Compiles(text) == text # <<>> /\ make(text) # Null

\* C15: evaluate_for_n(n) returns evaluate(n) of the calculator when the
\* expression compiled, and 0 for every n when there is no calculator (a
\* default-constructed object, the empty text, a text that does not compile)
C15_EvaluateOrZero ==
    pcall.op = "evaluate_for_n"
        => /\ exc = "none"
           /\ ret = IF Compiles(pf[pcall.i].m_expr)
                    THEN evaluate(make(pf[pcall.i].m_expr), pcall.n)
                    ELSE 0

\* a freshly constructed "nplurals=2; plural=(n != 1);" evaluated for 2
\* gives form 1, and a text that does not compile gives 0
C15_Witness ==
    /\ pcall.op = "evaluate_for_n"
    /\ pcall.n = 2
    /\ pf[pcall.i].m_expr = S("nplurals=2; plural=(n != 1);")
    /\ ret = 1
    /\ pf[3 - pcall.i].m_expr = S("garbage(((")
    /\ pf[3 - pcall.i].m_calcCreated
    /\ pf[3 - pcall.i].m_calc = Null

\* C16: two PluralFormsExpr objects whose texts differ only in spaces and
\* tabs compare equal, whether or not the texts compile
C16_EqualUpToBlanks ==
    (/\ pcall.op = "operator=="
     /\ StripBlanks(pf[pcall.i].m_expr) = StripBlanks(pf[pcall.j].m_expr))
        => ret = TRUE

\* C17: two PluralFormsExpr objects whose nplurals() differ never compare
\* equal, however the cardinality was determined
C17_DifferentNpluralsUnequal ==
    (/\ pcall.op = "operator=="
     /\ ~nplurals(pf[pcall.i]).raised
     /\ ~nplurals(pf[pcall.j]).raised
     /\ nplurals(pf[pcall.i]).value # nplurals(pf[pcall.j]).value)
        => ret = FALSE

\* C18: when the two texts are equal neither raw nor with the blanks
\* removed, operator== is true exactly when both texts compile, the two
\* calculators have the same plural count and evaluate(i) agrees for every
\* i in [0, MAX_EXAMPLES_COUNT); it is false when either does not compile
C18_SemanticEquality ==
    (/\ pcall.op = "operator=="
     /\ pf[pcall.i].m_expr # pf[pcall.j].m_expr
     /\ StripBlanks(pf[pcall.i].m_expr) # StripBlanks(pf[pcall.j].m_expr))
        => ret = (/\ Compiles(pf[pcall.i].m_expr)
                  /\ Compiles(pf[pcall.j].m_expr)
                  /\ make(pf[pcall.i].m_expr).nplurals
                         = make(pf[pcall.j].m_expr).nplurals
                  /\ \A n \in 0..(MAX_EXAMPLES_COUNT - 1) :
                        evaluate(make(pf[pcall.i].m_expr), n)
                            = evaluate(make(pf[pcall.j].m_expr), n))

\* "n != 1" with and without parentheses compare equal through their
\* calculators
C18_Witness ==
    /\ pcall.op = "operator=="
    /\ pf[pcall.i].m_expr = S("nplurals=2; plural=(n != 1);")
    /\ pf[pcall.j].m_expr = S("nplurals=2; plural=n != 1;")
    /\ pf[pcall.i].m_calc # Null
    /\ pf[pcall.j].m_calc # Null
    /\ ret = TRUE

\* C19: equality of PluralFormsExpr objects is reflexive and symmetric:
\* in any state of the lazily built calculators, a == a is true and
\* (a == b) is (b == a)
C19_EqualityReflexiveSymmetric ==
    /\ \A i \in DOMAIN pf : operator_eq(pf[i], pf[i]).value
    /\ \A i, j \in DOMAIN pf :
          operator_eq(pf[i], pf[j]).value = operator_eq(pf[j], pf[i]).value
    /\ pcall.op = "operator=="
          => ret = operator_eq(pf[pcall.j], pf[pcall.i]).value

\* a text that compiles was compared with one that does not, with the
\* first calculator built beforehand: the comparison is false both ways
C19_Witness ==
    /\ pcall.op = "operator=="
    /\ pcall.i # pcall.j
    /\ pf[pcall.i].m_calc # Null
    /\ pf[pcall.j].m_calcCreated
    /\ pf[pcall.j].m_calc = Null
    /\ pf[pcall.j].m_expr # <<>>
    /\ ret = FALSE
    /\ ~operator_eq(pf[pcall.j], pf[pcall.i]).value

\* C20: for every n >= 0, evaluate_for_n(n) lies in [0, nplurals())
\* whenever nplurals() > 0 and the expression compiled to a calculator
C20_EvaluateWithinNplurals ==
    (/\ pcall.op = "evaluate_for_n"
     /\ pf[pcall.i].m_calc # Null
     /\ ~nplurals(pf[pcall.i]).raised
     /\ nplurals(pf[pcall.i]).value > 0)
        => (0 <= ret /\ ret < nplurals(pf[pcall.i]).value)

\* C21: with any number of threads calling GetDisplayNamesData, the body
\* that builds the index runs exactly once; a caller returns only after
\* that build has completed, so what it reads is the complete index; and
\* the index is not modified after the build
C21_BuiltOnceBeforeAnyReturn ==
    /\ builds <= 1
    /\ of_namesList => (builds = 1 /\ data = BuildDisplayNamesData)
    /\ \A t \in DOMAIN thr :
          /\ thr[t].pc = "return" => of_namesList
          /\ thr[t].calls > 0 => thr[t].seen = BuildDisplayNamesData

\* every thread has called and returned twice, one thread built the index
C21_Witness ==
    /\ builds = 1
    /\ \A t \in DOMAIN thr : thr[t].calls = MaxCalls
    /\ \A t \in DOMAIN thr : thr[t].seen = BuildDisplayNamesData

\* the code without its '@variant'
CanonLangAndCountry(c) ==
    CanonLang(c) \o (IF CanonCountry(c) # <<>> THEN S("_") \o CanonCountry(c)
                     ELSE <<>>)

\* the keys DefaultPluralFormsExpr tries, in order
FormsKeys(c) == <<c, CanonLangAndCountry(c), CanonLang(c)>>

\* C22: DefaultPluralFormsExpr on a valid Language returns the table entry
\* of the first key present among the full code, the code without
\* '@variant' and the bare language, in this order; it returns the empty
\* PluralFormsExpr when none of the three is in the table or the Language
\* is invalid
C22_FirstKeyPresent ==
    pcall.op = "DefaultPluralFormsExpr"
        => IF IsValid(lang)
              /\ \E i \in 1..3 : FormsKeys(lang.code)[i] \in DOMAIN forms
           THEN ret = forms[FormsKeys(lang.code)[
                        Minimum({i \in 1..3 :
                                   FormsKeys(lang.code)[i] \in DOMAIN forms})]]
           ELSE ret.m_expr = <<>> /\ ret.m_calc = Null

\* ca_ES@valencia is not in the table, ca_ES and ca are: the entry of ca_ES
C22_Witness ==
    /\ pcall.op = "DefaultPluralFormsExpr"
    /\ lang.code = S("ca_ES@valencia")
    /\ lang.code \notin DOMAIN forms
    /\ ret = forms[S("ca_ES")]
    /\ ret # forms[S("ca")]

\* C23: the derived fields of a Language are a function of its code alone:
\* whichever entry point built it, its language tag, ICU locale name and
\* text direction are those of the Language the constructor builds from
\* the same code; an invalid Language has an empty tag and direction LTR
C23_DerivedFromCode ==
    op # "none"
        => /\ lang.tag = LanguageInit(lang.code).tag
           /\ lang.icuLocale = LanguageInit(lang.code).icuLocale
           /\ lang.direction = LanguageInit(lang.code).direction
           /\ ~IsValid(lang) => (lang.tag = <<>> /\ lang.direction = LTR)

\* C24: over any sequence of nplurals(), evaluate_for_n() and operator==
\* calls on one PluralFormsExpr, PluralFormsCalculator::make is called at
\* most once, also when it gives the null calculator, and never for an
\* empty text or a default-constructed object
C24_CompiledAtMostOnce ==
    \A i \in DOMAIN makes :
        /\ makes[i] <= 1
        /\ pf[i].m_expr = <<>> => makes[i] = 0

\* a text that does not compile was compiled once, giving the null
\* calculator, and the object was called again afterwards
C24_Witness ==
    /\ pcall.op = "nplurals"
    /\ makes[pcall.i] = 1
    /\ pf[pcall.i].m_calcCreated
    /\ pf[pcall.i].m_calc = Null
    /\ pf[3 - pcall.i].m_expr = <<>>
    /\ pf[3 - pcall.i].m_calcCreated

\* what nplurals() returns, -2 standing for the exception
NpluralsNow(x) == IF nplurals(x).raised THEN -2 ELSE nplurals(x).value

\* the same object as constructed, before any call
AsConstructed(x) ==
    IF x.m_expr = <<>> /\ x.m_calcCreated /\ x.m_calc = Null
    THEN x
    ELSE PluralFormsExpr(x.m_expr, x.m_nplurals)

\* C25: what nplurals() returns does not depend on the calls made before:
\* it is the same whether or not evaluate_for_n() or operator== was called
\* on the object, and a comparison leaves it unchanged on both operands
C25_NpluralsIndependentOfHistory ==
    \A i \in DOMAIN pf : NpluralsNow(pf[i]) = NpluralsNow(AsConstructed(pf[i]))

\* C26: on a Language whose code matches the canonical grammar the
\* accessors decompose the code without loss: Lang() is the 2-3 letter
\* language, Country() the part between '_' and '@', Variant() the part
\* after '@', LangAndCountry() the code without '@variant', and
\* Lang() [+ '_' + Country()] [+ '@' + Variant()] is the code
C26_AccessorsDecompose ==
    (op # "none" /\ IsValidCode(lang.code))
        => /\ Lang(lang.code) = CanonLang(lang.code)
           /\ Country(lang.code) = CanonCountry(lang.code)
           /\ Variant(lang.code) = CanonVariant(lang.code)
           /\ LangAndCountry(lang.code) = CanonLangAndCountry(lang.code)
           /\ lang.code =
                Lang(lang.code)
                \o (IF Country(lang.code) # <<>>
                    THEN <<"_">> \o Country(lang.code) ELSE <<>>)
                \o (IF Variant(lang.code) # <<>>
                    THEN <<"@">> \o Variant(lang.code) ELSE <<>>)

\* the constructor was given a code with all three parts
C26_Witness ==
    /\ op = "Language"
    /\ lang.code = S("sr_RS@latin")
    /\ Lang(lang.code) = S("sr")
    /\ Country(lang.code) = S("RS")
    /\ Variant(lang.code) = S("latin")
    /\ LangAndCountry(lang.code) = S("sr_RS")

\* the enumerated locales without variant
LocalesWithoutVariant ==
    {i \in 1..Len(AvailableLocales) : AvailableLocales[i].variant = <<>>}

\* C27: the name maps and the sorted name list are built from the same
\* locales, those without variant: every entry of AllFormattedNames(),
\* case-folded, is a key of the map of localized names, TryParse of any
\* entry returns a valid Language, and sortedNames has exactly one entry
\* per enumerated locale without variant
C27_NamesAndListAgree ==
    /\ of_namesList =>
          /\ \A i \in 1..Len(data.sortedNames) :
                foldCase(data.sortedNames[i]) \in DOMAIN data.names
          /\ Len(data.sortedNames) = Cardinality(LocalesWithoutVariant)
          /\ \A l \in LocalesWithoutVariant :
                \E i \in 1..Len(data.sortedNames) :
                    data.sortedNames[i] = AvailableLocales[l].name
    /\ (op = "AllFormattedNames" /\ again) => IsValid(lang)

\* an entry of AllFormattedNames() was parsed through the map of names
C27_Witness ==
    /\ op = "AllFormattedNames"
    /\ again
    /\ data.sortedNames[arg.index] = S("Serbisch (Lateinisch)")
    /\ lang.code = S("sr@latin")

\* C28: FromLegacyNames(lang, country) returns the invalid Language when
\* lang is empty or not in the legacy language table, whatever country is;
\* for a known lang it returns a valid Language whose code is the mapped
\* language, followed by '_' and the mapped country when country is in the
\* legacy country table, and the mapped language alone when country is
\* empty or unknown
C28_LegacyNames ==
    op = "FromLegacyNames"
        => IF arg.lang = <<>> \/ arg.lang \notin DOMAIN isoLanguages
           THEN ~IsValid(lang)
           ELSE /\ IsValid(lang)
                /\ lang.code =
                     IF arg.country \in DOMAIN isoCountries
                     THEN isoLanguages[arg.lang] \o <<"_">>
                              \o isoCountries[arg.country]
                     ELSE isoLanguages[arg.lang]

\* a known language with an unknown country gives the language alone
C28_Witness ==
    /\ op = "FromLegacyNames"
    /\ arg.lang = S("German")
    /\ arg.country = S("ATLANTIS")
    /\ lang.code = S("de")

\* the message the claim says the hook gets
StatedMessage(r) ==
    IF /\ r.content_type = "application/json"
       /\ r.body # "not json"
       /\ ~parse_json_error(r.parser, r.body).raised
       /\ parse_json_error(r.parser, r.body).value # ""
    THEN parse_json_error(r.parser, r.body).value
    ELSE r.reason_phrase

\* C29: handle_error on a status in [200, 300) raises nothing and does not
\* call on_error_response; on any other status it calls
\* on_error_response(status, message) exactly once, the message being the
\* result of parse_json_error when the content type is application/json
\* and that result is not empty and the reason phrase otherwise, and then
\* throws an http_exception with the status and message the hook left
C29_HandleError ==
    pcall.op = "handle_error"
        => IF arg.status_code \in 200..299
           THEN exc = "none" /\ hookCalls = <<>>
           ELSE /\ Len(hookCalls) = 1
                /\ hookCalls[1] = [status |-> arg.status_code,
                                   msg |-> StatedMessage(arg)]
                /\ exc = "http::http_exception"
                /\ ret = on_error_response(arg.hook, hookCalls[1].status,
                                           hookCalls[1].msg)

\* a 404 with a JSON body that does not parse: the hook gets the reason
\* phrase, rewrites status and message, and the exception carries them
C29_Witness ==
    /\ pcall.op = "handle_error"
    /\ arg.status_code = 404
    /\ arg.content_type = "application/json"
    /\ arg.body = "not json"
    /\ arg.hook = "rewrite"
    /\ hookCalls = <<[status |-> 404, msg |-> "Not Found"]>>
    /\ exc = "http::http_exception"
    /\ ret = [status |-> 401, msg |-> "please sign in again"]

\* the translations the default CheckItem has to look at: translation 0,
\* and 1..count-1 when the item has a plural, the empty ones left out
Candidates(item) ==
    {i \in 0..(Len(item.translations) - 1) :
        /\ item.translations[i + 1] # ""
        /\ i > 0 => item.hasPlural}

\* one CheckItem call of the default implementation is as the claim says
StatedCheckItem(check, item, call) ==
    /\ \A c \in 1..Len(call.calls) :
          /\ call.calls[c].translation # ""
          /\ call.calls[c].i \in Candidates(item)
          /\ call.calls[c].translation = item.translations[call.calls[c].i + 1]
          /\ call.calls[c].source = IF call.calls[c].i = 0 THEN item.string
                                    ELSE item.pluralString
          /\ call.calls[c].result
                = CheckString(check, call.calls[c].source,
                              call.calls[c].translation)
          /\ c < Len(call.calls) =>
                (~call.calls[c].result /\ call.calls[c].i < call.calls[c + 1].i)
    /\ call.result = (\E c \in 1..Len(call.calls) : call.calls[c].result)
    /\ ~call.result =>
          {call.calls[c].i : c \in 1..Len(call.calls)} = Candidates(item)
    /\ call.result =>
          {call.calls[c].i : c \in 1..Len(call.calls)}
              = {i \in Candidates(item) :
                    i <= call.calls[Len(call.calls)].i}

\* C30: QAChecker::Check(item) returns the number of registered checks whose
\* CheckItem(item) returned true, a number between 0 and the number of
\* checks; it returns 0 without calling any check when the source string
\* is empty or the item has a plural with an empty plural source; and the
\* default CheckItem never hands an empty translation to CheckString,
\* compares translation 0 with the singular source and translations
\* 1..count-1 with the plural source, and stops at the first CheckString
\* that returns true
C30_CheckCountsIssues ==
    pcall.op = "Check"
        => /\ ret = Cardinality({k \in 1..Len(invoked) : invoked[k].result})
           /\ 0 <= ret /\ ret <= Len(arg.m_checks)
           /\ IF \/ arg.item.string = ""
                 \/ arg.item.hasPlural /\ arg.item.pluralString = ""
              THEN ret = 0 /\ invoked = <<>>
              ELSE /\ Len(invoked) = Len(arg.m_checks)
                   /\ \A k \in 1..Len(invoked) :
                         /\ invoked[k].check = k
                         /\ arg.m_checks[k] # "always" =>
                               StatedCheckItem(arg.m_checks[k], arg.item,
                                               invoked[k])

\* a plural item with an empty first translation: the first check passes
\* over the "bad" second translation only with the plural source and stops
\* there, the second check finds nothing; one issue
C30_Witness ==
    /\ pcall.op = "Check"
    /\ arg.m_checks = <<"bad", "never">>
    /\ arg.item.hasPlural
    /\ arg.item.translations = <<"", "bad", "ok">>
    /\ ret = 1
    /\ Len(invoked) = 2
    /\ invoked[1].calls = <<StringCall(1, "sources", "bad", TRUE)>>
    /\ Len(invoked[2].calls) = 2

====
